---- MODULE Spec2Model ----
(***************************************************************************)
(* Model of the benchmark orchestrator "preformance tester/runme.py":      *)
(* the probe runner, the stdout extractors, main() with the background     *)
(* network server, and the report.                                         *)
(*                                                                         *)
(* Text.  A probe's stdout is a sequence of lines (output.split('\n')).   *)
(* A line is a sequence of fields; a field [label, tok, unit] stands for   *)
(* the characters  label ++ " " ++ tok ++ unit : a literal text, one       *)
(* blank, a token given character by character, and the literal text      *)
(* that follows the token.                                                 *)
(***************************************************************************)
EXTENDS Integers, Sequences, FiniteSets, TLC

MaxLines == 2
MaxTokLen == 2

DigitChars == {"0", "1", "2", "3", "4", "5", "6", "7", "8", "9"}
NumChars == DigitChars \cup {"."}

DigitVal(c) ==
    CASE c = "0" -> 0 [] c = "1" -> 1 [] c = "2" -> 2 [] c = "3" -> 3
      [] c = "4" -> 4 [] c = "5" -> 5 [] c = "6" -> 6 [] c = "7" -> 7
      [] c = "8" -> 8 [] c = "9" -> 9

(* The longest prefix of tok whose characters all lie in cs: what a greedy *)
(* character class  [cs]+  consumes at the start of tok.                   *)
RECURSIVE LeadingRun(_, _)
LeadingRun(tok, cs) ==
    IF tok = <<>> \/ Head(tok) \notin cs THEN <<>>
    ELSE <<Head(tok)>> \o LeadingRun(Tail(tok), cs)

RECURSIVE DecimalValue(_)
DecimalValue(ds) ==
    IF ds = <<>> THEN 0
    ELSE 10 * DecimalValue(SubSeq(ds, 1, Len(ds) - 1)) + DigitVal(ds[Len(ds)])

DotCount(s) == Cardinality({i \in 1..Len(s) : s[i] = "."})
DigitsOf(s) == SelectSeq(s, LAMBDA c : c \in DigitChars)

(* int(s) for s matched by (\d+): always a value.                          *)
PyInt(s) == [type |-> "int", n |-> DecimalValue(s), k |-> 0]

(* float(s) for s matched by ([\d.]+): s holds only digits and dots.       *)
(* Python accepts it iff it has at most one dot and at least one digit;    *)
(* otherwise float() raises ValueError.                                    *)
FloatOk(s) == DotCount(s) <= 1 /\ DigitsOf(s) # <<>>

RECURSIVE Normalize(_, _)
Normalize(n, k) ==
    IF k > 0 /\ n % 10 = 0 THEN Normalize(n \div 10, k - 1)
    ELSE [type |-> "float", n |-> n, k |-> k]

(* The value n / 10^k of a decimal text, in lowest decimal terms, so that  *)
(* "7", "7." and "7.0" denote the same float.                              *)
PyFloat(s) ==
    LET dot == IF DotCount(s) = 0 THEN Len(s) + 1
               ELSE CHOOSE i \in 1..Len(s) : s[i] = "."
        frac == Len(s) - dot
    IN  Normalize(DecimalValue(DigitsOf(s)), IF frac < 0 THEN 0 ELSE frac)

(***************************************************************************)
(* Substring tests and regular expressions over lines.                     *)
(***************************************************************************)
GpuSized == "Total Matrix Multiplications (size 64x64):"
GpuUnsized == "Total Matrix Multiplications:"

(* needle in literal, for the needles of runme.py and the literals used    *)
(* as labels here.                                                         *)
LiteralHas(literal, needle) ==
    \/ literal = needle
    \/ needle = "Total Matrix Multiplications" /\ literal \in {GpuSized, GpuUnsized}
    \/ needle = "size" /\ literal = GpuSized

(* Python's  needle in line                                                *)
InLine(needle, line) ==
    \E i \in 1..Len(line) : LiteralHas(line[i].label, needle)

(* A pattern  "<lit> (<class>+)<suffix>" : lit is the literal text before  *)
(* the blank, class the character class of the group, suffix the literal   *)
(* text required right after the group ("" when the pattern ends with the  *)
(* group).                                                                 *)
Regex(lit, class, suffix) == [lit |-> lit, class |-> class, suffix |-> suffix]

(* Does the literal part of the pattern match the label of a field?  Only  *)
(* the matrix pattern, "Total Matrix Multiplications \(size \d+x\d+\):",   *)
(* is not its own text.                                                    *)
LitMatches(lit, label) ==
    IF lit = "Total Matrix Multiplications \\(size \\d+x\\d+\\):"
    THEN label = GpuSized
    ELSE label = lit

(* The group captured at field f, or <<>> when the pattern does not match  *)
(* there.  The class is greedy; with a suffix the whole token must be      *)
(* consumed and the suffix must follow, since giving characters back       *)
(* leaves a class character where the suffix has to start.                 *)
MatchAt(re, f) ==
    LET run == LeadingRun(f.tok, re.class)
    IN  IF ~LitMatches(re.lit, f.label) THEN <<>>
        ELSE IF re.suffix = "" THEN run
        ELSE IF run = f.tok /\ f.unit = re.suffix THEN run
        ELSE <<>>

(* re.search(pattern, line): the group of the leftmost match, <<>> for None *)
re_search(re, line) ==
    LET hits == {i \in 1..Len(line) : MatchAt(re, line[i]) # <<>>}
    IN  IF hits = {} THEN <<>>
        ELSE MatchAt(re, line[CHOOSE i \in hits : \A j \in hits : i <= j])

(***************************************************************************)
(* The extractors.  A result is [raised, stats]: raised is TRUE when       *)
(* float() raised ValueError, stats is the dict built so far.              *)
(***************************************************************************)
EmptyStats == [key \in {} |-> 0]

dict_set(d, key, v) ==
    [x \in DOMAIN d \cup {key} |-> IF x = key THEN v ELSE d[x]]

(* dict.update                                                             *)
dict_update(d, s) ==
    [x \in DOMAIN d \cup DOMAIN s |-> IF x \in DOMAIN s THEN s[x] ELSE d[x]]

(* One branch of an if/elif chain:  if all needles are in the line, search *)
(* the pattern and store conv(group) under key.                            *)
Rule(needles, re, conv, key) ==
    [needles |-> needles, re |-> re, conv |-> conv, key |-> key]

(* The body of "for line in lines" for a chain of branches.                *)
ParseLine(chain, acc, line) ==
    LET taken == {i \in 1..Len(chain) :
                     \A nd \in chain[i].needles : InLine(nd, line)}
    IN  IF acc.raised \/ taken = {} THEN acc
        ELSE LET r == chain[CHOOSE i \in taken : \A j \in taken : i <= j]
                 g == re_search(r.re, line)
             IN  IF g = <<>> THEN acc
                 ELSE IF r.conv = "int"
                      THEN [acc EXCEPT !.stats = dict_set(@, r.key, PyInt(g))]
                 ELSE IF FloatOk(g)
                      THEN [acc EXCEPT !.stats = dict_set(@, r.key, PyFloat(g))]
                 ELSE [acc EXCEPT !.raised = TRUE]

RECURSIVE ParseLines(_, _, _)
ParseLines(chain, acc, lines) ==
    IF lines = <<>> THEN acc
    ELSE ParseLines(chain, ParseLine(chain, acc, Head(lines)), Tail(lines))

NoStats == [raised |-> FALSE, stats |-> EmptyStats]

FpsChain(total, prefix) ==
    << Rule({total}, Regex(total, DigitChars, ""), "int",
            IF prefix = "2D" THEN "2D Total Sprites" ELSE "3D Total Cubes"),
       Rule({"Lowest FPS:"}, Regex("Lowest FPS:", NumChars, ""), "float",
            IF prefix = "2D" THEN "2D Lowest FPS" ELSE "3D Lowest FPS"),
       Rule({"Highest FPS:"}, Regex("Highest FPS:", NumChars, ""), "float",
            IF prefix = "2D" THEN "2D Highest FPS" ELSE "3D Highest FPS"),
       Rule({"Average FPS:"}, Regex("Average FPS:", NumChars, ""), "float",
            IF prefix = "2D" THEN "2D Average FPS" ELSE "3D Average FPS") >>

parse_2d_output(output) ==
    ParseLines(FpsChain("Total Sprites Generated:", "2D"), NoStats, output)

parse_3d_output(output) ==
    ParseLines(FpsChain("Total Cubes Generated:", "3D"), NoStats, output)

(* Variant: the class of the time pattern has no dot.                      *)
parse_cpu_output_nodot(output) ==
    ParseLines(
      << Rule({"Total Primes Found:"},
              Regex("Total Primes Found:", DigitChars, ""), "int",
              "CPU Primes Found"),
         Rule({"Time Taken:"}, Regex("Time Taken:", DigitChars, " seconds"),
              "float", "CPU Time Taken (s)") >>, NoStats, output)

parse_cpu_output(output) ==
    ParseLines(
      << Rule({"Total Primes Found:"},
              Regex("Total Primes Found:", DigitChars, ""), "int",
              "CPU Primes Found"),
         Rule({"Time Taken:"}, Regex("Time Taken:", NumChars, " seconds"),
              "float", "CPU Time Taken (s)") >>, NoStats, output)

(* Variant: the time of the memory probe is stored under the CPU key.      *)
parse_memory_output_cpukey(output) ==
    ParseLines(
      << Rule({"Total Allocation Cycles:"},
              Regex("Total Allocation Cycles:", DigitChars, ""), "int",
              "Memory Allocation Cycles"),
         Rule({"Time Taken:"}, Regex("Time Taken:", NumChars, " seconds"),
              "float", "CPU Time Taken (s)") >>, NoStats, output)

parse_memory_output(output) ==
    ParseLines(
      << Rule({"Total Allocation Cycles:"},
              Regex("Total Allocation Cycles:", DigitChars, ""), "int",
              "Memory Allocation Cycles"),
         Rule({"Time Taken:"}, Regex("Time Taken:", NumChars, " seconds"),
              "float", "Memory Time Taken (s)") >>, NoStats, output)

parse_file_io_output(output) ==
    ParseLines(
      << Rule({"Write Speed:"}, Regex("Write Speed:", NumChars, " MB/s"),
              "float", "File I/O Write Speed (MB/s)"),
         Rule({"Read Speed:"}, Regex("Read Speed:", NumChars, " MB/s"),
              "float", "File I/O Read Speed (MB/s)") >>, NoStats, output)

parse_simulated_gpu_output(output) ==
    ParseLines(
      << Rule({"Total Matrix Multiplications"},
              Regex("Total Matrix Multiplications \\(size \\d+x\\d+\\):",
                    DigitChars, ""), "int",
              "Simulated GPU Matrix Multiplications"),
         Rule({"Time Taken:"}, Regex("Time Taken:", NumChars, " seconds"),
              "float", "Simulated GPU Time Taken (s)") >>, NoStats, output)

parse_real_gpu_output(output) ==
    ParseLines(
      << Rule({"Total Matrix Multiplications", "size"},
              Regex("Total Matrix Multiplications \\(size \\d+x\\d+\\):",
                    DigitChars, ""), "int",
              "Real GPU Matrix Multiplications"),
         Rule({"Time Taken:"}, Regex("Time Taken:", NumChars, " seconds"),
              "float", "Real GPU Time Taken (s)") >>, NoStats, output)

parse_net_client_output(output) ==
    ParseLines(
      << Rule({"Send Speed:"}, Regex("Send Speed:", NumChars, " MB/s"),
              "float", "Net Send Speed (MB/s)"),
         Rule({"Receive Speed:"}, Regex("Receive Speed:", NumChars, " MB/s"),
              "float", "Net Receive Speed (MB/s)") >>, NoStats, output)

(* parse_mcseedgen_output searches the whole output for                    *)
(*   Generated (\d+) seeds in ([\d.]+) seconds.                            *)
(* which no match can span two lines of.  It matches at fields i, i+1 of a *)
(* line: "Generated", digits, " seeds in", then a token of digits and dots *)
(* followed by " seconds" and one more character.                          *)
McMatchAt(line, i) ==
    /\ i + 1 <= Len(line)
    /\ line[i].label = "Generated"
    /\ line[i].tok # <<>>
    /\ LeadingRun(line[i].tok, DigitChars) = line[i].tok
    /\ line[i].unit = " seeds in"
    /\ line[i + 1].label = ""
    /\ line[i + 1].tok # <<>>
    /\ LeadingRun(line[i + 1].tok, NumChars) = line[i + 1].tok
    /\ \/ line[i + 1].unit = " seconds."
       \/ line[i + 1].unit = " seconds" /\ i + 2 <= Len(line)

parse_mcseedgen_output(output) ==
    LET hits == {p \in (1..Len(output)) \X (1..4) : McMatchAt(output[p[1]], p[2])}
    IN  IF hits = {} THEN NoStats
        ELSE LET p == CHOOSE q \in hits : \A h \in hits :
                          q[1] < h[1] \/ (q[1] = h[1] /\ q[2] <= h[2])
                 line == output[p[1]]
             IN  IF ~FloatOk(line[p[2] + 1].tok)
                 THEN [raised |-> TRUE, stats |-> EmptyStats]
                 ELSE [raised |-> FALSE,
                       stats |-> dict_set(dict_set(EmptyStats,
                                   "MC Seeds Generated", PyInt(line[p[2]].tok)),
                                   "MC Generation Time (s)",
                                   PyFloat(line[p[2] + 1].tok))]

(***************************************************************************)
(* The probe scripts and what they print.                                  *)
(***************************************************************************)
SCRIPT_2D_TEST == "2dtest.py"
SCRIPT_3D_TEST == "3dtest.py"
SCRIPT_MC_SEEDGEN == "mcseedgen.py"
SCRIPT_CPU_TEST == "cputest.py"
SCRIPT_MEMORY_TEST == "memorytest.py"
SCRIPT_FILE_IO_TEST == "fileiotest.py"
SCRIPT_SIMULATED_GPU_TEST == "gputest.py"
SCRIPT_REAL_GPU_TEST == "real_gputest.py"
SCRIPT_NET_SERVER == "nettest_server.py"
SCRIPT_NET_CLIENT == "nettest_client.py"

(* The blocking probes of main() in the order of its calls.                *)
BlockingProbes ==
    << SCRIPT_2D_TEST, SCRIPT_3D_TEST, SCRIPT_MC_SEEDGEN, SCRIPT_CPU_TEST,
       SCRIPT_MEMORY_TEST, SCRIPT_FILE_IO_TEST, SCRIPT_SIMULATED_GPU_TEST,
       SCRIPT_REAL_GPU_TEST >>

(* The extractor main() applies to the stdout of each script.              *)
Extractor(script, output) ==
    CASE script = SCRIPT_2D_TEST -> parse_2d_output(output)
      [] script = SCRIPT_3D_TEST -> parse_3d_output(output)
      [] script = SCRIPT_MC_SEEDGEN -> parse_mcseedgen_output(output)
      [] script = SCRIPT_CPU_TEST -> parse_cpu_output(output)
      [] script = SCRIPT_MEMORY_TEST -> parse_memory_output(output)
      [] script = SCRIPT_FILE_IO_TEST -> parse_file_io_output(output)
      [] script = SCRIPT_SIMULATED_GPU_TEST -> parse_simulated_gpu_output(output)
      [] script = SCRIPT_REAL_GPU_TEST -> parse_real_gpu_output(output)
      [] script = SCRIPT_NET_CLIENT -> parse_net_client_output(output)

Field(label, tok, unit) == [label |-> label, tok |-> tok, unit |-> unit]

(* The metric lines of each script: label, kind of number, text after it.  *)
MetricLines(script) ==
    CASE script = SCRIPT_2D_TEST ->
           << <<"Total Sprites Generated:", "int", "">>,
              <<"Lowest FPS:", "float", "">>,
              <<"Highest FPS:", "float", "">>,
              <<"Average FPS:", "float", "">> >>
      [] script = SCRIPT_3D_TEST ->
           << <<"Total Cubes Generated:", "int", "">>,
              <<"Lowest FPS:", "float", "">>,
              <<"Highest FPS:", "float", "">>,
              <<"Average FPS:", "float", "">> >>
      [] script = SCRIPT_CPU_TEST ->
           << <<"Total Primes Found:", "int", "">>,
              <<"Time Taken:", "float", " seconds">> >>
      [] script = SCRIPT_MEMORY_TEST ->
           << <<"Total Allocation Cycles:", "int", "">>,
              <<"Time Taken:", "float", " seconds">> >>
      [] script = SCRIPT_FILE_IO_TEST ->
           << <<"Write Speed:", "float", " MB/s">>,
              <<"Read Speed:", "float", " MB/s">> >>
      [] script \in {SCRIPT_SIMULATED_GPU_TEST, SCRIPT_REAL_GPU_TEST} ->
           << <<GpuSized, "int", "">>,
              <<"Time Taken:", "float", " seconds">> >>
      [] script = SCRIPT_NET_CLIENT ->
           << <<"Send Speed:", "float", " MB/s">>,
              <<"Receive Speed:", "float", " MB/s">> >>
      [] OTHER -> << >>

IntTok == <<"4", "2">>
FloatTok == <<"1", ".", "0", "0">>
BadTok == <<"1", ".", "2", ".", "3">>

(* The stdout a script prints when it ends normally: one line per metric,  *)
(* numbers as  {n}  and  {x:.2f} ; mcseedgen prints one sentence.          *)
FullOutput(script) ==
    IF script = SCRIPT_MC_SEEDGEN
    THEN << << Field("Generated", IntTok, " seeds in"),
               Field("", FloatTok, " seconds.") >> >>
    ELSE [i \in 1..Len(MetricLines(script)) |->
            LET m == MetricLines(script)[i]
            IN  << Field(m[1], IF m[2] = "int" THEN IntTok ELSE FloatTok, m[3]) >>]

(* A stdout whose last number is not a number.                             *)
BadOutput(script) ==
    IF script = SCRIPT_MC_SEEDGEN
    THEN << << Field("Generated", IntTok, " seeds in"),
               Field("", BadTok, " seconds.") >> >>
    ELSE LET m == MetricLines(script)[Len(MetricLines(script))]
         IN  << << Field(m[1], BadTok, m[3]) >> >>

(* Scripts that may also stop after their first metric line, or print all  *)
(* but the first.                                                          *)
PartialScripts == {SCRIPT_CPU_TEST, SCRIPT_NET_CLIENT}

(* The stdout texts a child of main() may have printed when it exits.      *)
Outputs(script) ==
    {<<>>, FullOutput(script), BadOutput(script)}
    \cup IF script \in PartialScripts
         THEN {<<Head(FullOutput(script))>>, Tail(FullOutput(script))}
         ELSE {}

Stderrs == {"", "Traceback"}
ExitCodes == {0, 1}

(***************************************************************************)
(* The report of main().                                                   *)
(***************************************************************************)
NoArg == [type |-> "none", n |-> 0, k |-> 0]
NA == [type |-> "str", n |-> 0, k |-> 0]

(* One printed line:  text ++ format(arg, spec) ++ tail.                   *)
Printed(text, arg, spec, tail) ==
    [text |-> text, arg |-> arg, spec |-> spec, tail |-> tail]

Separator == Printed("==============================", NoArg, "", "")

Header ==
    << Separator,
       Printed("  Comprehensive Performance Overview", NoArg, "", ""),
       Separator >>

NoDataLine ==
    Printed("No performance data collected from any scripts.", NoArg, "", "")

Title(gate, text) ==
    [gate |-> gate, text |-> text, key |-> "", spec |-> "", tail |-> ""]
Row(gate, text, key, spec, tail) ==
    [gate |-> gate, text |-> text, key |-> key, spec |-> spec, tail |-> tail]

(* The print statements of the report body, in program order, each with    *)
(* the key tested by the if statement around it.                           *)
ReportPrints ==
    << Title("2D Total Sprites", "--- 2D Pygame Test (Graphics) ---"),
       Row("2D Total Sprites", "  Total Sprites: ", "2D Total Sprites", "", ""),
       Row("2D Total Sprites", "  Lowest FPS: ", "2D Lowest FPS", ".2f", ""),
       Row("2D Total Sprites", "  Highest FPS: ", "2D Highest FPS", ".2f", ""),
       Row("2D Total Sprites", "  Average FPS: ", "2D Average FPS", ".2f", ""),
       Title("3D Total Cubes", "--- 3D Ursina Test (Graphics) ---"),
       Row("3D Total Cubes", "  Total Cubes: ", "3D Total Cubes", "", ""),
       Row("3D Total Cubes", "  Lowest FPS: ", "3D Lowest FPS", ".2f", ""),
       Row("3D Total Cubes", "  Highest FPS: ", "3D Highest FPS", ".2f", ""),
       Row("3D Total Cubes", "  Average FPS: ", "3D Average FPS", ".2f", ""),
       Title("MC Seeds Generated", "--- Minecraft Seed Gen Test (Light CPU) ---"),
       Row("MC Seeds Generated", "  Seeds Generated: ", "MC Seeds Generated", "", ""),
       Row("MC Seeds Generated", "  Generation Time: ", "MC Generation Time (s)",
           ".2f", " seconds"),
       Title("CPU Primes Found", "--- CPU Performance Test (Heavy CPU) ---"),
       Row("CPU Primes Found", "  Primes Found: ", "CPU Primes Found", "", ""),
       Row("CPU Primes Found", "  Time Taken: ", "CPU Time Taken (s)", ".2f",
           " seconds"),
       Title("Memory Allocation Cycles", "--- Memory Performance Test ---"),
       Row("Memory Allocation Cycles", "  Allocation Cycles: ",
           "Memory Allocation Cycles", "", ""),
       Row("Memory Allocation Cycles", "  Time Taken: ", "Memory Time Taken (s)",
           ".2f", " seconds"),
       Title("File I/O Write Speed (MB/s)", "--- File I/O Performance Test ---"),
       Row("File I/O Write Speed (MB/s)", "  Write Speed: ",
           "File I/O Write Speed (MB/s)", ".2f", " MB/s"),
       Row("File I/O Write Speed (MB/s)", "  Read Speed: ",
           "File I/O Read Speed (MB/s)", ".2f", " MB/s"),
       Title("Simulated GPU Matrix Multiplications",
             "--- Simulated GPU Compute Test (CPU-based) ---"),
       Row("Simulated GPU Matrix Multiplications", "  Matrix Multiplications: ",
           "Simulated GPU Matrix Multiplications", "", ""),
       Row("Simulated GPU Matrix Multiplications", "  Time Taken: ",
           "Simulated GPU Time Taken (s)", ".2f", " seconds"),
       Title("Real GPU Matrix Multiplications",
             "--- Actual GPU Compute Test (OpenCL) ---"),
       Row("Real GPU Matrix Multiplications", "  Matrix Multiplications: ",
           "Real GPU Matrix Multiplications", "", ""),
       Row("Real GPU Matrix Multiplications", "  Time Taken: ",
           "Real GPU Time Taken (s)", ".2f", " seconds"),
       Title("Net Send Speed (MB/s)", "--- Network Performance Test (Loopback) ---"),
       Row("Net Send Speed (MB/s)", "  Send Speed: ", "Net Send Speed (MB/s)",
           ".2f", " MB/s"),
       Row("Net Send Speed (MB/s)", "  Receive Speed: ", "Net Receive Speed (MB/s)",
           ".2f", " MB/s") >>

(* all_performance_data.get(key, 'N/A')                                    *)
dict_get(d, key) == IF key \in DOMAIN d THEN d[key] ELSE NA

(* format(value, spec) raises ValueError for a str value and the spec      *)
(* ".2f"; every other combination used by the report formats.              *)
FormatRaises(value, spec) == spec = ".2f" /\ value.type = "str"

(* Variant: the print statements are run through from the last one.       *)
RECURSIVE ReportBody_reversed(_, _, _)
ReportBody_reversed(data, i, lines) ==
    IF i > Len(ReportPrints)
    THEN [lines |-> Append(lines, Separator), raised |-> FALSE]
    ELSE LET p == ReportPrints[Len(ReportPrints) + 1 - i]
         IN  IF p.gate \notin DOMAIN data
             THEN ReportBody_reversed(data, i + 1, lines)
             ELSE IF p.key = ""
                  THEN ReportBody_reversed(data, i + 1,
                                  Append(lines, Printed(p.text, NoArg, "", "")))
             ELSE IF FormatRaises(dict_get(data, p.key), p.spec)
                  THEN [lines |-> lines, raised |-> TRUE]
             ELSE ReportBody_reversed(data, i + 1,
                     Append(lines, Printed(p.text, dict_get(data, p.key),
                                           p.spec, p.tail)))

(* The body of the report from print statement i on: the lines printed,    *)
(* and whether a print statement raised.                                   *)
RECURSIVE ReportBody(_, _, _)
ReportBody(data, i, lines) ==
    IF i > Len(ReportPrints)
    THEN [lines |-> Append(lines, Separator), raised |-> FALSE]
    ELSE LET p == ReportPrints[i]
         IN  IF p.gate \notin DOMAIN data THEN ReportBody(data, i + 1, lines)
             ELSE IF p.key = ""
                  THEN ReportBody(data, i + 1,
                                  Append(lines, Printed(p.text, NoArg, "", "")))
             ELSE IF FormatRaises(dict_get(data, p.key), p.spec)
                  THEN [lines |-> lines, raised |-> TRUE]
             ELSE ReportBody(data, i + 1,
                     Append(lines, Printed(p.text, dict_get(data, p.key),
                                           p.spec, p.tail)))

(* Variant: the return after the no-data message is missing.               *)
Report_noreturn(data) ==
    ReportBody(data, 1,
               IF DOMAIN data = {} THEN Append(Header, NoDataLine) ELSE Header)

(* Lines 316-375 of main().                                                *)
Report(data) ==
    IF DOMAIN data = {}
    THEN [lines |-> Append(Header, NoDataLine), raised |-> FALSE]
    ELSE ReportBody(data, 1, Header)

(***************************************************************************)
(* The text of a printed line: what the f-string puts for the value.       *)
(***************************************************************************)
DigitChar(d) == CHOOSE c \in DigitChars : DigitVal(c) = d

RECURSIVE Pow10(_)
Pow10(k) == IF k = 0 THEN 1 ELSE 10 * Pow10(k - 1)

(* str(n) for n >= 0                                                       *)
RECURSIVE IntDigits(_)
IntDigits(n) ==
    IF n < 10 THEN << DigitChar(n) >>
    ELSE Append(IntDigits(n \div 10), DigitChar(n % 10))

(* The last w digits of n, with leading zeros.                             *)
RECURSIVE PadDigits(_, _)
PadDigits(n, w) ==
    IF w = 0 THEN <<>>
    ELSE Append(PadDigits(n \div 10, w - 1), DigitChar(n % 10))

(* n / 10^k in hundredths, to the nearest, a tie to the even neighbour.    *)
Hundredths(n, k) ==
    IF k <= 2 THEN n * Pow10(2 - k)
    ELSE LET unit == Pow10(k - 2)
             q    == n \div unit
             r    == n % unit
         IN  IF 2 * r > unit \/ (2 * r = unit /\ q % 2 = 1) THEN q + 1 ELSE q

(* Variant: one decimal.                                                   *)
format_value_1f(value, spec) ==
    IF value.type = "none" THEN <<>>
    ELSE IF value.type = "str" THEN <<"N", "/", "A">>
    ELSE IF spec = ".2f"
         THEN LET h == Hundredths(value.n, value.k) \div 10
              IN  IntDigits(h \div 10) \o <<".">> \o PadDigits(h % 10, 1)
    ELSE IF value.type = "int" THEN IntDigits(value.n)
    ELSE IntDigits(value.n \div Pow10(value.k)) \o <<".">> \o
         (IF value.k = 0 THEN <<"0">>
          ELSE PadDigits(value.n % Pow10(value.k), value.k))

(* {value} and {value:.2f} of the f-strings of lines 327-372: str() of an  *)
(* int, two decimals for a number under .2f, repr of a float otherwise.    *)
format_value(value, spec) ==
    IF value.type = "none" THEN <<>>
    ELSE IF value.type = "str" THEN <<"N", "/", "A">>
    ELSE IF spec = ".2f"
         THEN LET h == Hundredths(value.n, value.k)
              IN  IntDigits(h \div 100) \o <<".">> \o PadDigits(h % 100, 2)
    ELSE IF value.type = "int" THEN IntDigits(value.n)
    ELSE IntDigits(value.n \div Pow10(value.k)) \o <<".">> \o
         (IF value.k = 0 THEN <<"0">>
          ELSE PadDigits(value.n % Pow10(value.k), value.k))

(* A printed line as text: the literal before the value, the characters    *)
(* of the value, the literal after it.                                     *)
Rendered(line) ==
    [text |-> line.text, value |-> format_value(line.arg, line.spec),
     tail |-> line.tail]

(***************************************************************************)
(* State of one run of runme.py.                                           *)
(***************************************************************************)
VARIABLES
    pc,                     \* where main() stands
    idx,                    \* the probe at hand: 1..8 blocking, 9 the client
    called,                 \* scripts passed to run_script_and_capture_output
    alive,                  \* scripts whose child process is alive
    child,                  \* the child of the subprocess.run in progress
    result,                 \* the tuple the last blocking call returned
    all_performance_data,   \* the metrics table
    net_server_process,     \* "None" or "Popen"
    signals,                \* signals sent to the server, in order
    exc,                    \* the exception in flight
    report,                 \* the lines of the report printed so far
    exit_status,            \* of the orchestrator process, -1 while it runs
    p_fn, p_in, p_out,      \* an extractor applied to a text on its own
    stubs,                  \* end-to-end scenario: the probe scripts that exist
    listening,              \* network scenario: the server has bound its port
    connected,              \* network scenario: "none", "ok" or "refused"
    s_pc,                   \* echo exchange: where nettest_server.py stands
    c_pc,                   \* echo exchange: where nettest_client.py stands
    c2s,                    \* bytes on the way from the client to the server
    s2c,                    \* bytes on the way from the server to the client
    s_data,                 \* the server's data: length of what recv returned
    total_bytes_sent,       \* the client's counter
    total_bytes_received,   \* the client's counter
    accepted,               \* connections the server has accepted
    s_out,                  \* lines the server has printed
    rounds,                 \* iterations of the client's loop begun
    t_fn,                   \* arkpkg / videodestroyer: the function called
    t_pc,                   \* where that function stands
    t_env,                  \* what it finds: files, user, answers
    t_cmds,                 \* external commands run, each with its exit code
    t_ret,                  \* "none" while running, then the outcome
    t_files,                \* files in the working directory
    t_out                   \* what was printed or removed, in order

vars == << pc, idx, called, alive, child, result, all_performance_data,
           net_server_process, signals, exc, report, exit_status,
           p_fn, p_in, p_out, stubs, listening, connected,
           s_pc, c_pc, c2s, s2c, s_data, total_bytes_sent, total_bytes_received,
           accepted, s_out, rounds,
           t_fn, t_pc, t_env, t_cmds, t_ret, t_files, t_out >>

parseVars == << p_fn, p_in, p_out >>
sockVars == << s_pc, c_pc, c2s, s2c, s_data, total_bytes_sent,
               total_bytes_received, accepted, s_out, rounds >>
toolVars == << t_fn, t_pc, t_env, t_cmds, t_ret, t_files, t_out >>
envVars == << stubs, listening, connected, sockVars, toolVars >>

NoChild == [state |-> "none", rc |-> 0, stdout |-> <<>>, stderr |-> ""]
NoResult == [success |-> FALSE, output |-> <<>>, error |-> ""]
NoParse == [raised |-> FALSE, stats |-> EmptyStats, done |-> FALSE]

CurrentScript ==
    IF idx <= Len(BlockingProbes) THEN BlockingProbes[idx] ELSE SCRIPT_NET_CLIENT

MainInit ==
    /\ pc = "call"
    /\ idx = 1
    /\ called = <<>>
    /\ alive = {}
    /\ child = NoChild
    /\ result = NoResult
    /\ all_performance_data = EmptyStats
    /\ net_server_process = "None"
    /\ signals = <<>>
    /\ exc = "none"
    /\ report = <<>>
    /\ exit_status = -1

(* The scenario variables at rest.                                         *)
(* The two network scripts before they run.                                *)
SockInit(server, client) ==
    /\ s_pc = server
    /\ c_pc = client
    /\ c2s = 0
    /\ s2c = 0
    /\ s_data = 0
    /\ total_bytes_sent = 0
    /\ total_bytes_received = 0
    /\ accepted = 0
    /\ s_out = <<>>
    /\ rounds = 0

(* What a function of arkpkg.py or videodestoryer.py may find.             *)
Env(git, dir, pkgbuild, readable, answer, root, input_file, ffmpeg, decodable) ==
    [git |-> git, dir |-> dir, pkgbuild |-> pkgbuild, readable |-> readable,
     answer |-> answer, root |-> root, input_file |-> input_file,
     ffmpeg |-> ffmpeg, decodable |-> decodable]

NoTool ==
    /\ t_fn = "idle"
    /\ t_pc = "idle"
    /\ t_env = Env(FALSE, FALSE, FALSE, FALSE, "", FALSE, "", FALSE, FALSE)
    /\ t_cmds = <<>>
    /\ t_ret = "none"
    /\ t_files = {}
    /\ t_out = <<>>

NoEnv ==
    /\ stubs = {}
    /\ listening = FALSE
    /\ connected = "none"
    /\ SockInit("idle", "idle")
    /\ NoTool

Init ==
    /\ MainInit
    /\ p_fn = SCRIPT_CPU_TEST
    /\ p_in = <<>>
    /\ p_out = NoParse
    /\ NoEnv

(***************************************************************************)
(* run_script_and_capture_output(script, wait=True)                        *)
(***************************************************************************)
(* Variant: the missing script is reported as a success.                   *)
NotFoundResult_success == [success |-> TRUE, output |-> <<>>, error |-> "not found"]

NotFoundResult == [success |-> FALSE, output |-> <<>>, error |-> "not found"]

(* os.path.exists is false: lines 35-38.                                   *)
RunScriptNotFound ==
    /\ pc = "call"
    /\ called' = Append(called, CurrentScript)
    /\ result' = NotFoundResult
    /\ pc' = "returned"
    /\ UNCHANGED << idx, alive, child, all_performance_data, net_server_process,
                    signals, exc, report, exit_status, parseVars, envVars >>

(* subprocess.run raises before a child exists (no interpreter, no         *)
(* permission): except Exception, lines 67-70.                             *)
RunScriptSpawnError ==
    /\ pc = "call"
    /\ called' = Append(called, CurrentScript)
    /\ result' = [success |-> FALSE, output |-> <<>>, error |-> "spawn error"]
    /\ pc' = "returned"
    /\ UNCHANGED << idx, alive, child, all_performance_data, net_server_process,
                    signals, exc, report, exit_status, parseVars, envVars >>

(* subprocess.run starts the child and waits for it: line 44.              *)
RunScriptSpawn ==
    /\ pc = "call"
    /\ called' = Append(called, CurrentScript)
    /\ alive' = alive \cup {CurrentScript}
    /\ child' = [NoChild EXCEPT !.state = "running"]
    /\ pc' = "run"
    /\ UNCHANGED << idx, result, all_performance_data, net_server_process,
                    signals, exc, report, exit_status, parseVars, envVars >>

(* The child ends with some exit code, stdout and stderr.                  *)
ChildExit ==
    /\ child.state = "running"
    /\ \E rc \in ExitCodes, out \in Outputs(CurrentScript), err \in Stderrs :
          child' = [state |-> "exited", rc |-> rc, stdout |-> out, stderr |-> err]
    /\ alive' = alive \ {CurrentScript}
    /\ UNCHANGED << pc, idx, called, result, all_performance_data,
                    net_server_process, signals, exc, report, exit_status,
                    parseVars, envVars >>

(* Variant: the call returns without waiting for the child.                *)
RunCompleted_nowait(c) == TRUE

(* May subprocess.run return?  It returns the CompletedProcess of a child  *)
(* that has exited.                                                        *)
RunCompleted(c) == c.state = "exited"

(* Variant: the exit code is not looked at.                                *)
SuccessOf_always(returncode) == TRUE

(* success of the tuple returned at lines 50-57.                           *)
SuccessOf(returncode) == returncode = 0

(* Lines 50-57: (returncode == 0, stdout, stderr).                         *)
RunScriptReturn ==
    /\ pc = "run"
    /\ RunCompleted(child)
    /\ result' = [success |-> SuccessOf(child.rc), output |-> child.stdout,
                  error |-> child.stderr]
    /\ child' = NoChild
    /\ pc' = "returned"
    /\ UNCHANGED << idx, called, alive, all_performance_data, net_server_process,
                    signals, exc, report, exit_status, parseVars, envVars >>

(***************************************************************************)
(* main(): the handling of a returned tuple, lines 221-290.                *)
(***************************************************************************)
(* Variant: the stdout is parsed whatever the success flag.                *)
Extracts_always(r) == TRUE

(* if success_x:                                                           *)
Extracts(r) == r.success

(* Variant: the network section starts after the seventh probe.            *)
AfterProbe_early(i) ==
    IF i < Len(BlockingProbes) - 1 THEN "call"
    ELSE IF i <= Len(BlockingProbes) THEN "server"
    ELSE "terminate"

(* Where main() goes on after the probe at position i.                     *)
AfterProbe(i) ==
    IF i < Len(BlockingProbes) THEN "call"
    ELSE IF i = Len(BlockingProbes) THEN "server"
    ELSE "terminate"

HandleResult ==
    /\ pc = "returned"
    /\ LET parsed == IF Extracts(result) THEN Extractor(CurrentScript, result.output)
                     ELSE NoStats
       IN  IF parsed.raised
           THEN /\ exc' = "ValueError"
                /\ pc' = "finally"
                /\ UNCHANGED << idx, all_performance_data >>
           ELSE /\ all_performance_data' =
                       dict_update(all_performance_data, parsed.stats)
                /\ pc' = AfterProbe(idx)
                /\ idx' = IF idx < Len(BlockingProbes) THEN idx + 1 ELSE idx
                /\ exc' = exc
    /\ UNCHANGED << called, alive, child, result, net_server_process, signals,
                    report, exit_status, parseVars, envVars >>

(***************************************************************************)
(* main(): the network section, lines 276-303.                             *)
(***************************************************************************)
ServerAlive == SCRIPT_NET_SERVER \in alive

(* Variant: the None handle is not tested and the section goes on.         *)
StartServerFails_noguard ==
    /\ pc = "server"
    /\ called' = Append(called, SCRIPT_NET_SERVER)
    /\ net_server_process' = "None"
    /\ pc' = "sleep"
    /\ UNCHANGED << idx, alive, child, result, all_performance_data, signals,
                    exc, report, exit_status, parseVars, envVars >>

(* run_script_and_capture_output(SCRIPT_NET_SERVER, wait=False) returns   *)
(* None, because the script is missing (lines 35-40) or because Popen      *)
(* raised (lines 67-72); main() takes the else branch of line 302.         *)
StartServerFails ==
    /\ pc = "server"
    /\ called' = Append(called, SCRIPT_NET_SERVER)
    /\ net_server_process' = "None"
    /\ pc' = "finally"
    /\ UNCHANGED << idx, alive, child, result, all_performance_data, signals,
                    exc, report, exit_status, parseVars, envVars >>

(* Variant: the client is called at once, without the grace sleep.        *)
StartServer_nosleep ==
    /\ pc = "server"
    /\ called' = Append(called, SCRIPT_NET_SERVER)
    /\ net_server_process' = "Popen"
    /\ alive' = alive \cup {SCRIPT_NET_SERVER}
    /\ idx' = Len(BlockingProbes) + 1
    /\ pc' = "call"
    /\ UNCHANGED << child, result, all_performance_data, signals, exc,
                    report, exit_status, parseVars, envVars >>

(* Popen starts the server in the background: lines 60-66.                 *)
StartServer ==
    /\ pc = "server"
    /\ called' = Append(called, SCRIPT_NET_SERVER)
    /\ net_server_process' = "Popen"
    /\ alive' = alive \cup {SCRIPT_NET_SERVER}
    /\ pc' = "sleep"
    /\ UNCHANGED << idx, child, result, all_performance_data, signals, exc,
                    report, exit_status, parseVars, envVars >>

(* time.sleep(2), then the client probe is called: lines 283-286.          *)
GraceSleep ==
    /\ pc = "sleep"
    /\ idx' = Len(BlockingProbes) + 1
    /\ pc' = "call"
    /\ UNCHANGED << called, alive, child, result, all_performance_data,
                    net_server_process, signals, exc, report, exit_status,
                    parseVars, envVars >>

(* The server process ends: by itself (accept timeout, client gone), or    *)
(* in reaction to a signal, at once or late.  It may also never end.       *)
ServerExits ==
    /\ ServerAlive
    /\ alive' = alive \ {SCRIPT_NET_SERVER}
    /\ UNCHANGED << pc, idx, called, child, result, all_performance_data,
                    net_server_process, signals, exc, report, exit_status,
                    parseVars, envVars >>

(* net_server_process.terminate(): line 294.                               *)
Terminate ==
    /\ pc = "terminate"
    /\ signals' = Append(signals, "terminate")
    /\ pc' = "wait"
    /\ UNCHANGED << idx, called, alive, child, result, all_performance_data,
                    net_server_process, exc, report, exit_status, parseVars, envVars >>

(* wait(timeout=5) returns: the server has exited within the 5 seconds.    *)
WaitReturns ==
    /\ pc = "wait"
    /\ alive' = alive \ {SCRIPT_NET_SERVER}
    /\ pc' = "poll"
    /\ UNCHANGED << idx, called, child, result, all_performance_data,
                    net_server_process, signals, exc, report, exit_status,
                    parseVars, envVars >>

(* Variant: the timeout is caught and the poll of line 296 is reached.     *)
WaitTimeout_caught ==
    /\ pc = "wait"
    /\ ServerAlive
    /\ pc' = "poll"
    /\ UNCHANGED << idx, called, alive, child, result, all_performance_data,
                    net_server_process, signals, exc, report, exit_status,
                    parseVars, envVars >>

(* Variant: wait() without a timeout never raises.                         *)
WaitTimeout_never ==
    /\ pc = "wait"
    /\ ServerAlive
    /\ FALSE
    /\ UNCHANGED vars

(* wait(timeout=5) raises subprocess.TimeoutExpired: the server is still   *)
(* running after 5 seconds.  Control leaves the try block.                 *)
WaitTimeout ==
    /\ pc = "wait"
    /\ ServerAlive
    /\ exc' = "TimeoutExpired"
    /\ pc' = "finally"
    /\ UNCHANGED << idx, called, alive, child, result, all_performance_data,
                    net_server_process, signals, report, exit_status, parseVars, envVars >>

(* if net_server_process.poll() is None: kill() -- lines 296-298.          *)
PollKill ==
    /\ pc = "poll"
    /\ IF ServerAlive
       THEN /\ signals' = Append(signals, "kill")
            /\ alive' = alive \ {SCRIPT_NET_SERVER}
       ELSE UNCHANGED << signals, alive >>
    /\ pc' = "communicate"
    /\ UNCHANGED << idx, called, child, result, all_performance_data,
                    net_server_process, exc, report, exit_status, parseVars, envVars >>

(* communicate() reads the pipes of the ended server: lines 299-301.       *)
Communicate ==
    /\ pc = "communicate"
    /\ ~ServerAlive
    /\ pc' = "finally"
    /\ UNCHANGED << idx, called, alive, child, result, all_performance_data,
                    net_server_process, signals, exc, report, exit_status,
                    parseVars, envVars >>

(***************************************************************************)
(* main(): the finally block, lines 305-312.                               *)
(***************************************************************************)
(* Leaving the finally block: the exception in flight, if any, goes on.    *)
AfterFinally(e) == IF e = "none" THEN "report" ELSE "raised"

Finally ==
    /\ pc = "finally"
    /\ IF net_server_process = "Popen" /\ ServerAlive
       THEN /\ signals' = Append(signals, "terminate")
            /\ pc' = "finally_wait"
       ELSE /\ pc' = AfterFinally(exc)
            /\ UNCHANGED signals
    /\ UNCHANGED << idx, called, alive, child, result, all_performance_data,
                    net_server_process, exc, report, exit_status, parseVars, envVars >>

FinallyWaitReturns ==
    /\ pc = "finally_wait"
    /\ alive' = alive \ {SCRIPT_NET_SERVER}
    /\ pc' = "finally_poll"
    /\ UNCHANGED << idx, called, child, result, all_performance_data,
                    net_server_process, signals, exc, report, exit_status,
                    parseVars, envVars >>

(* Variant: the timeout inside the finally block is swallowed.             *)
FinallyWaitTimeout_swallowed ==
    /\ pc = "finally_wait"
    /\ ServerAlive
    /\ exc' = "none"
    /\ pc' = "report"
    /\ UNCHANGED << idx, called, alive, child, result, all_performance_data,
                    net_server_process, signals, report, exit_status, parseVars, envVars >>

(* TimeoutExpired raised inside the finally block leaves main().           *)
FinallyWaitTimeout ==
    /\ pc = "finally_wait"
    /\ ServerAlive
    /\ exc' = "TimeoutExpired"
    /\ pc' = "raised"
    /\ UNCHANGED << idx, called, alive, child, result, all_performance_data,
                    net_server_process, signals, report, exit_status, parseVars, envVars >>

FinallyPollKill ==
    /\ pc = "finally_poll"
    /\ IF ServerAlive
       THEN /\ signals' = Append(signals, "kill")
            /\ alive' = alive \ {SCRIPT_NET_SERVER}
       ELSE UNCHANGED << signals, alive >>
    /\ pc' = AfterFinally(exc)
    /\ UNCHANGED << idx, called, child, result, all_performance_data,
                    net_server_process, exc, report, exit_status, parseVars, envVars >>

(***************************************************************************)
(* main(): the report, lines 315-375, and the end of the process.          *)
(***************************************************************************)
PrintReport ==
    /\ pc = "report"
    /\ LET r == Report(all_performance_data)
       IN  /\ report' = r.lines
           /\ exc' = IF r.raised THEN "ValueError" ELSE exc
           /\ pc' = IF r.raised THEN "raised" ELSE "returned_main"
    /\ UNCHANGED << idx, called, alive, child, result, all_performance_data,
                    net_server_process, signals, exit_status, parseVars, envVars >>

(* if __name__ == "__main__": main() -- an exception out of main() ends    *)
(* the interpreter with status 1, a return with status 0.                  *)
ProcessExit ==
    /\ pc \in {"raised", "returned_main"}
    /\ exit_status' = IF pc = "raised" THEN 1 ELSE 0
    /\ pc' = "exited"
    /\ UNCHANGED << idx, called, alive, child, result, all_performance_data,
                    net_server_process, signals, exc, report, parseVars, envVars >>

Next ==
    \/ RunScriptNotFound \/ RunScriptSpawnError \/ RunScriptSpawn
    \/ ChildExit \/ RunScriptReturn \/ HandleResult
    \/ StartServerFails \/ StartServer
    \/ GraceSleep \/ ServerExits
    \/ Terminate \/ WaitReturns \/ WaitTimeout \/ PollKill \/ Communicate
    \/ Finally \/ FinallyWaitReturns \/ FinallyWaitTimeout \/ FinallyPollKill
    \/ PrintReport \/ ProcessExit

Spec == Init /\ [][Next]_vars

(***************************************************************************)
(* Progress.  main() takes its next step when it can: a call returns once  *)
(* its child has exited, the grace sleep ends, and wait(timeout=5) returns *)
(* once the server has exited or raises after 5 seconds.  Every child of   *)
(* a blocking call exits at some time.  Nothing is assumed of the server.  *)
(***************************************************************************)
MainStep ==
    \/ RunScriptNotFound \/ RunScriptSpawnError \/ RunScriptSpawn
    \/ RunScriptReturn
    \/ StartServerFails \/ StartServer \/ GraceSleep
    \/ Terminate \/ (~ServerAlive /\ WaitReturns) \/ WaitTimeout
    \/ PollKill \/ Communicate
    \/ Finally \/ (~ServerAlive /\ FinallyWaitReturns) \/ FinallyWaitTimeout
    \/ FinallyPollKill
    \/ PrintReport \/ ProcessExit

(* Weak fairness of HandleResult, written out: the step is enabled exactly *)
(* when pc = "returned", and it always changes pc.                         *)
HandleResultFair ==
    []<>(pc # "returned") \/ []<><<HandleResult>>_vars

SpecLive ==
    Spec /\ WF_vars(MainStep) /\ HandleResultFair /\ WF_vars(ChildExit)

(***************************************************************************)
(* An extractor on its own: every text of at most MaxLines lines made of   *)
(* the script's metric labels, with tokens of at most MaxTokLen            *)
(* characters.                                                             *)
(***************************************************************************)
ParseChars == {"7", ".", "N"}

RECURSIVE ToksOfLen(_)
ToksOfLen(n) ==
    IF n = 0 THEN {<<>>}
    ELSE {Append(t, c) : t \in ToksOfLen(n - 1), c \in ParseChars}

Toks == UNION {ToksOfLen(n) : n \in 1..MaxTokLen}

OtherLine == << Field("Total Bytes Written:", <<"7">>, " MB") >>

LinesOf(script) ==
    IF script = SCRIPT_MC_SEEDGEN
    THEN {<< Field("Generated", a, " seeds in"), Field("", b, u) >> :
             a \in {<<"7">>, <<"N">>}, b \in Toks, u \in {" seconds.", " seconds"}}
    ELSE {OtherLine} \cup
         UNION {{<< Field(MetricLines(script)[i][1], t, u) >> :
                    t \in Toks, u \in {MetricLines(script)[i][3], ""}} :
                i \in 1..Len(MetricLines(script))}

RECURSIVE TextsOfLen(_, _)
TextsOfLen(script, n) ==
    IF n = 0 THEN {<<>>}
    ELSE {Append(t, l) : t \in TextsOfLen(script, n - 1), l \in LinesOf(script)}

Texts(script) == UNION {TextsOfLen(script, n) : n \in 0..MaxLines}

ParseScripts ==
    {BlockingProbes[i] : i \in 1..Len(BlockingProbes)} \cup {SCRIPT_NET_CLIENT}

InitParse ==
    /\ MainInit
    /\ p_fn \in ParseScripts
    /\ p_in \in Texts(p_fn)
    /\ p_out = NoParse
    /\ NoEnv

(* stats = parse_x_output(output), or the ValueError it raises.            *)
ParseCall ==
    /\ ~p_out.done
    /\ LET r == Extractor(p_fn, p_in)
       IN  p_out' = [raised |-> r.raised, stats |-> r.stats, done |-> TRUE]
    /\ UNCHANGED << pc, idx, called, alive, child, result, all_performance_data,
                    net_server_process, signals, exc, report, exit_status,
                    p_fn, p_in, envVars >>

NextParse == ParseCall

SpecParse == InitParse /\ [][NextParse]_vars

(***************************************************************************)
(* parse_cpu_output on its own: every text of at most MaxLines lines, each *)
(* a line of cputest.py with any token over CpuChars, with or without the  *)
(* unit, or a line of another script.                                      *)
(***************************************************************************)
CpuChars == {"7", "."}

RECURSIVE CpuToksOfLen(_)
CpuToksOfLen(n) ==
    IF n = 0 THEN {<<>>}
    ELSE {Append(t, c) : t \in CpuToksOfLen(n - 1), c \in CpuChars}

CpuToks == UNION {CpuToksOfLen(n) : n \in 1..MaxTokLen}

CpuLines ==
    {OtherLine} \cup
    {<< Field("Total Primes Found:", t, "") >> : t \in CpuToks} \cup
    {<< Field("Time Taken:", t, u) >> : t \in CpuToks, u \in {" seconds", ""}}

(* The texts of n lines.                                                   *)
CpuTexts(n) == [1..n -> CpuLines]

InitCpu ==
    /\ MainInit
    /\ p_fn = SCRIPT_CPU_TEST
    /\ \E n \in 0..MaxLines : p_in \in CpuTexts(n)
    /\ p_out = NoParse
    /\ NoEnv

NextCpu == ParseCall

SpecCpu == InitCpu /\ [][NextCpu]_vars

(***************************************************************************)
(* parse_cpu_output and parse_2d_output on texts whose lines hold one or   *)
(* two of the script's metrics, so that a metric can come several times    *)
(* and a line can hold two prefixes.                                       *)
(***************************************************************************)
ChainScripts == {SCRIPT_CPU_TEST, SCRIPT_2D_TEST}

ChainToks(kind) ==
    IF kind = "int" THEN {<<"7">>, IntTok}
    ELSE {<<"7">>, <<"1", ".", "5">>, BadTok}

ChainFields(script) ==
    UNION {{Field(MetricLines(script)[j][1], t, MetricLines(script)[j][3]) :
               t \in ChainToks(MetricLines(script)[j][2])} :
           j \in 1..Len(MetricLines(script))}

ChainLines(script) ==
    {<< f >> : f \in ChainFields(script)} \cup
    {<< fg[1], fg[2] >> :
        fg \in {x \in ChainFields(script) \X ChainFields(script) :
                   x[1].label # x[2].label}}

InitChain ==
    /\ MainInit
    /\ p_fn \in ChainScripts
    /\ \E n \in 0..MaxLines : p_in \in [1..n -> ChainLines(p_fn)]
    /\ p_out = NoParse
    /\ NoEnv

NextChain == ParseCall

SpecChain == InitChain /\ [][NextChain]_vars

(***************************************************************************)
(* main() against a stub probe set: the blocking probes in stubs exist,    *)
(* exit 0 and print their full output; every other script, the network     *)
(* server and client included, is missing.                                 *)
(***************************************************************************)
InitE2E ==
    /\ MainInit
    /\ p_fn = SCRIPT_CPU_TEST
    /\ p_in = <<>>
    /\ p_out = NoParse
    /\ stubs \in SUBSET {BlockingProbes[i] : i \in 1..Len(BlockingProbes)}
    /\ listening = FALSE
    /\ connected = "none"
    /\ SockInit("idle", "idle")
    /\ NoTool

E2ENotFound == CurrentScript \notin stubs /\ RunScriptNotFound

E2ESpawn == CurrentScript \in stubs /\ RunScriptSpawn

E2EChildExit ==
    /\ ChildExit
    /\ child' = [state |-> "exited", rc |-> 0,
                 stdout |-> FullOutput(CurrentScript), stderr |-> ""]

NextE2E ==
    \/ E2ENotFound \/ E2ESpawn \/ E2EChildExit
    \/ RunScriptReturn \/ HandleResult
    \/ StartServerFails \/ Finally
    \/ PrintReport \/ ProcessExit

SpecE2E == InitE2E /\ [][NextE2E]_vars

(***************************************************************************)
(* main() with the two network scripts followed inside: the server binds   *)
(* its port at some time after its start, the client connects or is        *)
(* refused, prints accordingly and leaves through sys.exit().              *)
(***************************************************************************)
(* nettest_server.py: s.bind, s.listen.                                    *)
ServerBinds ==
    /\ ServerAlive
    /\ ~listening
    /\ listening' = TRUE
    /\ UNCHANGED << pc, idx, called, alive, child, result, all_performance_data,
                    net_server_process, signals, exc, report, exit_status,
                    parseVars, stubs, connected, sockVars, toolVars >>

ClientRunning ==
    /\ pc = "run"
    /\ CurrentScript = SCRIPT_NET_CLIENT
    /\ child.state = "running"

(* nettest_client.py: s.connect succeeds when a live server listens and    *)
(* raises ConnectionRefusedError otherwise.                                *)
ClientConnects ==
    /\ ClientRunning
    /\ connected = "none"
    /\ connected' = IF listening /\ ServerAlive THEN "ok" ELSE "refused"
    /\ UNCHANGED << pc, idx, called, alive, child, result, all_performance_data,
                    net_server_process, signals, exc, report, exit_status,
                    parseVars, stubs, listening, sockVars, toolVars >>

(* What the client prints after a refused connection: the error line and   *)
(* no speed line.                                                         *)
RefusedOutput ==
    << << Field("Error: Connection refused. Is the server running on", <<>>, "") >> >>

(* The client ends: sys.exit() in the finally clause, status 0, after the  *)
(* four result lines or after the error line.                              *)
ClientExit ==
    /\ ClientRunning
    /\ connected # "none"
    /\ child' = [state |-> "exited", rc |-> 0,
                 stdout |-> IF connected = "ok"
                            THEN FullOutput(SCRIPT_NET_CLIENT)
                            ELSE RefusedOutput,
                 stderr |-> ""]
    /\ alive' = alive \ {SCRIPT_NET_CLIENT}
    /\ UNCHANGED << pc, idx, called, result, all_performance_data,
                    net_server_process, signals, exc, report, exit_status,
                    parseVars, envVars >>

(* The blocking probes end as in ChildExit.                                *)
ProbeExit == CurrentScript # SCRIPT_NET_CLIENT /\ ChildExit

NextNet ==
    \/ RunScriptNotFound \/ RunScriptSpawnError \/ RunScriptSpawn
    \/ ProbeExit \/ RunScriptReturn \/ HandleResult
    \/ StartServerFails \/ StartServer
    \/ GraceSleep \/ ServerBinds \/ ServerExits
    \/ ClientConnects \/ ClientExit
    \/ Terminate \/ WaitReturns \/ WaitTimeout \/ PollKill \/ Communicate
    \/ Finally \/ FinallyWaitReturns \/ FinallyWaitTimeout \/ FinallyPollKill
    \/ PrintReport \/ ProcessExit

SpecNet == Init /\ [][NextNet]_vars

(***************************************************************************)
(* The echo exchange of nettest_server.py and nettest_client.py on their   *)
(* own.  Bytes are counted in units, ChunkUnits of them to a chunk of      *)
(* DATA_CHUNK_SIZE bytes; recv returns any part of what has arrived, up to *)
(* a chunk.  The client's loop runs at most MaxRounds times before its     *)
(* TEST_DURATION is over.                                                  *)
(***************************************************************************)
ChunkUnits == 2
MaxRounds == 2

runVars == << pc, idx, called, alive, child, result, all_performance_data,
              net_server_process, signals, exc, report, exit_status >>
restVars == << runVars, parseVars, stubs, listening, connected, toolVars >>

Min(a, b) == IF a < b THEN a ELSE b

(* The client's connect has succeeded at some time.                        *)
HasConnected == c_pc \in {"send", "recv", "done", "exited"}
(* The client has left its with block: its socket is closed.               *)
ClientClosed == c_pc = "exited"
(* The server has left its with blocks: both its sockets are closed.       *)
ServerClosed == s_pc \in {"finally", "exited"}

InitEcho ==
    /\ MainInit
    /\ p_fn = SCRIPT_CPU_TEST
    /\ p_in = <<>>
    /\ p_out = NoParse
    /\ stubs = {}
    /\ listening = FALSE
    /\ connected = "none"
    /\ SockInit("bind", "connect")
    /\ NoTool

(* s.bind, s.listen, print: server lines 12-14.                            *)
SrvBind ==
    /\ s_pc = "bind"
    /\ s_pc' = "accept"
    /\ s_out' = Append(s_out, "Server listening on")
    /\ UNCHANGED << restVars, c_pc, c2s, s2c, s_data, total_bytes_sent,
                    total_bytes_received, accepted, rounds >>

(* s.bind raises (the port is taken): except socket.error, lines 35-36.    *)
SrvBindFails ==
    /\ s_pc = "bind"
    /\ s_pc' = "finally"
    /\ s_out' = Append(s_out, "Server socket error:")
    /\ UNCHANGED << restVars, c_pc, c2s, s2c, s_data, total_bytes_sent,
                    total_bytes_received, accepted, rounds >>

(* conn, addr = s.accept(): lines 20-22.                                   *)
SrvAccept ==
    /\ s_pc = "accept"
    /\ HasConnected
    /\ accepted' = accepted + 1
    /\ s_pc' = "recv"
    /\ s_out' = Append(s_out, "Connected by")
    /\ UNCHANGED << restVars, c_pc, c2s, s2c, s_data, total_bytes_sent,
                    total_bytes_received, rounds >>

(* No connection within the 5 seconds of line 19: accept raises            *)
(* socket.timeout, a socket.error, caught at line 35.                      *)
SrvAcceptTimeout ==
    /\ s_pc = "accept"
    /\ ~HasConnected
    /\ s_pc' = "finally"
    /\ s_out' = Append(s_out, "Server socket error:")
    /\ UNCHANGED << restVars, c_pc, c2s, s2c, s_data, total_bytes_sent,
                    total_bytes_received, accepted, rounds >>

(* data = conn.recv(4096) returns bytes: line 26.                          *)
SrvRecvData ==
    /\ s_pc = "recv"
    /\ c2s > 0
    /\ \E n \in 1..Min(c2s, ChunkUnits) :
          /\ s_data' = n
          /\ c2s' = c2s - n
    /\ s_pc' = "send"
    /\ UNCHANGED << restVars, c_pc, s2c, total_bytes_sent,
                    total_bytes_received, accepted, s_out, rounds >>

(* recv returns b'' after the client closed: break, lines 27-28.           *)
SrvRecvEof ==
    /\ s_pc = "recv"
    /\ c2s = 0
    /\ ClientClosed
    /\ s_pc' = "finally"
    /\ UNCHANGED << restVars, c_pc, c2s, s2c, s_data, total_bytes_sent,
                    total_bytes_received, accepted, s_out, rounds >>

(* Variant: without conn.settimeout(1) recv blocks for ever.               *)
SrvRecvTimeout_blocks ==
    /\ s_pc = "recv"
    /\ FALSE
    /\ UNCHANGED vars

(* No byte from the client for 1 second: socket.timeout, break, line 30.   *)
SrvRecvTimeout ==
    /\ s_pc = "recv"
    /\ c2s = 0
    /\ ~ClientClosed
    /\ s_pc' = "finally"
    /\ UNCHANGED << restVars, c_pc, c2s, s2c, s_data, total_bytes_sent,
                    total_bytes_received, accepted, s_out, rounds >>

(* The client closed with echoed bytes unread: recv raises                 *)
(* ConnectionResetError, lines 32-34.                                      *)
SrvRecvReset ==
    /\ s_pc = "recv"
    /\ ClientClosed
    /\ s2c > 0
    /\ s_pc' = "finally"
    /\ s_out' = Append(s_out, "Client disconnected unexpectedly.")
    /\ UNCHANGED << restVars, c_pc, c2s, s2c, s_data, total_bytes_sent,
                    total_bytes_received, accepted, rounds >>

(* Variant: the server sends what it received twice.                       *)
SrvSend_twice ==
    /\ s_pc = "send"
    /\ s2c' = s2c + 2 * s_data
    /\ s_data' = 0
    /\ s_pc' = "recv"
    /\ UNCHANGED << restVars, c_pc, c2s, total_bytes_sent,
                    total_bytes_received, accepted, s_out, rounds >>

(* conn.sendall(data): line 29.                                            *)
SrvSend ==
    /\ s_pc = "send"
    /\ s2c' = s2c + s_data
    /\ s_data' = 0
    /\ s_pc' = "recv"
    /\ UNCHANGED << restVars, c_pc, c2s, total_bytes_sent,
                    total_bytes_received, accepted, s_out, rounds >>

(* sendall raises after the client closed: ConnectionResetError (lines     *)
(* 32-34) or BrokenPipeError, a socket.error (lines 35-36); or it times    *)
(* out (line 30).  Part of the data may have gone out.                     *)
SrvSendFails ==
    /\ s_pc = "send"
    /\ ClientClosed
    /\ \E k \in 0..(s_data - 1) : s2c' = s2c + k
    /\ s_data' = 0
    /\ \E said \in {<<>>, <<"Client disconnected unexpectedly.">>,
                     <<"Server socket error:">>} : s_out' = s_out \o said
    /\ s_pc' = "finally"
    /\ UNCHANGED << restVars, c_pc, c2s, total_bytes_sent,
                    total_bytes_received, accepted, rounds >>

(* finally: print, sys.exit() -- lines 39-41.                              *)
SrvFinally ==
    /\ s_pc = "finally"
    /\ s_out' = Append(s_out, "Server shutting down.")
    /\ s_pc' = "exited"
    /\ UNCHANGED << restVars, c_pc, c2s, s2c, s_data, total_bytes_sent,
                    total_bytes_received, accepted, rounds >>

ServerStep ==
    \/ SrvBind \/ SrvBindFails \/ SrvAccept \/ SrvAcceptTimeout
    \/ SrvRecvData \/ SrvRecvEof \/ SrvRecvTimeout \/ SrvRecvReset
    \/ SrvSend \/ SrvSendFails \/ SrvFinally

(* s.connect: client line 22.  It succeeds when the server listens, and    *)
(* raises ConnectionRefusedError otherwise (lines 59-60, 64).              *)
CliConnect ==
    /\ c_pc = "connect"
    /\ c_pc' = IF s_pc = "accept" THEN "send" ELSE "refused"
    /\ UNCHANGED << restVars, s_pc, c2s, s2c, s_data, total_bytes_sent,
                    total_bytes_received, accepted, s_out, rounds >>

(* The loop test is true; s.sendall(test_data) and the count: lines 26-29. *)
CliSend ==
    /\ c_pc = "send"
    /\ rounds < MaxRounds
    /\ rounds' = rounds + 1
    /\ c2s' = c2s + ChunkUnits
    /\ total_bytes_sent' = total_bytes_sent + ChunkUnits
    /\ c_pc' = "recv"
    /\ UNCHANGED << restVars, s_pc, s2c, s_data, total_bytes_received,
                    accepted, s_out >>

(* sendall raises (timeout, reset, broken pipe: lines 37-45) after part of *)
(* the chunk has gone out; nothing is counted and the loop is left.        *)
CliSendFails ==
    /\ c_pc = "send"
    /\ rounds < MaxRounds
    /\ rounds' = rounds + 1
    /\ \E k \in 0..(ChunkUnits - 1) : c2s' = c2s + k
    /\ c_pc' = "done"
    /\ UNCHANGED << restVars, s_pc, s2c, s_data, total_bytes_sent,
                    total_bytes_received, accepted, s_out >>

(* The loop test is false: TEST_DURATION is over, line 26.                 *)
CliLoopEnd ==
    /\ c_pc = "send"
    /\ rounds >= 1
    /\ c_pc' = "done"
    /\ UNCHANGED << restVars, s_pc, c2s, s2c, s_data, total_bytes_sent,
                    total_bytes_received, accepted, s_out, rounds >>

(* received_data = s.recv(DATA_CHUNK_SIZE) returns bytes: lines 31-35.     *)
CliRecvData ==
    /\ c_pc = "recv"
    /\ s2c > 0
    /\ \E n \in 1..Min(s2c, ChunkUnits) :
          /\ total_bytes_received' = total_bytes_received + n
          /\ s2c' = s2c - n
    /\ c_pc' = "send"
    /\ UNCHANGED << restVars, s_pc, c2s, s_data, total_bytes_sent, accepted,
                    s_out, rounds >>

(* recv returns b'' (the server closed), times out after 1 second, or      *)
(* raises ConnectionResetError: break, lines 32-42.                        *)
CliRecvBreak ==
    /\ c_pc = "recv"
    /\ s2c = 0 \/ (ServerClosed /\ c2s > 0)
    /\ c_pc' = "done"
    /\ UNCHANGED << restVars, s_pc, c2s, s2c, s_data, total_bytes_sent,
                    total_bytes_received, accepted, s_out, rounds >>

(* The four result lines, the end of the with block, sys.exit(): lines     *)
(* 47-57 and 64.                                                           *)
CliClose ==
    /\ c_pc = "done"
    /\ c_pc' = "exited"
    /\ UNCHANGED << restVars, s_pc, c2s, s2c, s_data, total_bytes_sent,
                    total_bytes_received, accepted, s_out, rounds >>

NextEcho ==
    \/ SrvBind \/ SrvBindFails \/ SrvAccept \/ SrvAcceptTimeout
    \/ SrvRecvData \/ SrvRecvEof \/ SrvRecvTimeout \/ SrvRecvReset
    \/ SrvSend \/ SrvSendFails \/ SrvFinally
    \/ CliConnect \/ CliSend \/ CliSendFails \/ CliLoopEnd
    \/ CliRecvData \/ CliRecvBreak \/ CliClose

SpecEcho == InitEcho /\ [][NextEcho]_vars

(* The server takes its next step when it can; nothing is assumed of the   *)
(* client.                                                                 *)
SpecEchoLive == SpecEcho /\ WF_vars(ServerStep)

(***************************************************************************)
(* arkpkg.py: AURHelper.install_aur and PacmanHelper.install, remove,      *)
(* update, each called once in some environment.                           *)
(***************************************************************************)
otherVars == << runVars, parseVars, stubs, listening, connected, sockVars >>

Cmd(cmd, rc) == [cmd |-> cmd, rc |-> rc]

(* Exit codes of a shell command.                                          *)
ShellCodes == {0, 1}

(* Variant: check=False, every exit code gives True.                       *)
run_command_nocheck(rc) == TRUE

(* run_command(cmd) with check=True, capture=False: True when the command  *)
(* exited 0, False on CalledProcessError.                                  *)
run_command(rc) == rc = 0

(* What the user types at the prompt, and end of file on stdin.            *)
Answers == {"", "y", "Y", " yes ", "n", "no", "EOF"}

(* response.strip().lower()                                                *)
StripLower(r) ==
    CASE r = "Y" -> "y"
      [] r = " yes " -> "yes"
      [] OTHER -> r

(* confirm_action: response in ['', 'y', 'yes']                            *)
confirm_action(r) == StripLower(r) \in {"", "y", "yes"}

ArkFns == {"install_aur", "install", "remove", "update"}

InitArk ==
    /\ MainInit
    /\ p_fn = SCRIPT_CPU_TEST
    /\ p_in = <<>>
    /\ p_out = NoParse
    /\ stubs = {}
    /\ listening = FALSE
    /\ connected = "none"
    /\ SockInit("idle", "idle")
    /\ t_fn \in ArkFns
    /\ t_pc = IF t_fn = "install_aur" THEN "which" ELSE "check_root"
    /\ \E git, dir, pkgbuild, readable, root \in BOOLEAN, answer \in Answers :
          t_env = Env(git, dir, pkgbuild, readable, answer, root, "", FALSE, FALSE)
    /\ t_cmds = <<>>
    /\ t_ret = "none"
    /\ t_files = {}
    /\ t_out = <<>>

(* return value: the function is left.                                     *)
Return(value) == t_ret' = value /\ t_pc' = "done"

(* if not shutil.which('git'): lines 103-105.                              *)
AurWhich ==
    /\ t_fn = "install_aur" /\ t_pc = "which"
    /\ IF t_env.git THEN t_pc' = "fetch" /\ UNCHANGED t_ret
       ELSE Return("False")
    /\ UNCHANGED << otherVars, t_fn, t_env, t_cmds, t_files, t_out >>

(* git pull in the existing directory, or git clone: lines 108-119.        *)
AurFetch ==
    /\ t_fn = "install_aur" /\ t_pc = "fetch"
    /\ \E rc \in ShellCodes :
          /\ t_cmds' = Append(t_cmds,
                  Cmd(IF t_env.dir THEN "git pull" ELSE "git clone", rc))
          /\ IF run_command(rc) THEN t_pc' = "pkgbuild" /\ UNCHANGED t_ret
             ELSE Return("False")
    /\ UNCHANGED << otherVars, t_fn, t_env, t_files, t_out >>

(* if not pkgbuild.exists(): lines 122-125.                                *)
AurPkgbuild ==
    /\ t_fn = "install_aur" /\ t_pc = "pkgbuild"
    /\ IF t_env.pkgbuild THEN t_pc' = "show" /\ UNCHANGED t_ret
       ELSE Return("False")
    /\ UNCHANGED << otherVars, t_fn, t_env, t_cmds, t_files, t_out >>

(* open(pkgbuild).read() and print, lines 127-131: open or read raise for  *)
(* a file that cannot be read or decoded, and nothing catches it.          *)
AurShow ==
    /\ t_fn = "install_aur" /\ t_pc = "show"
    /\ IF t_env.readable
       THEN /\ t_out' = Append(t_out, "PKGBUILD")
            /\ t_pc' = "confirm"
            /\ UNCHANGED t_ret
       ELSE Return("raised") /\ UNCHANGED t_out
    /\ UNCHANGED << otherVars, t_fn, t_env, t_cmds, t_files >>

(* if not confirm_action(...): lines 133-135; input() raises EOFError at   *)
(* end of file.                                                            *)
AurConfirm ==
    /\ t_fn = "install_aur" /\ t_pc = "confirm"
    /\ IF t_env.answer = "EOF" THEN Return("raised")
       ELSE IF confirm_action(t_env.answer) THEN t_pc' = "build" /\ UNCHANGED t_ret
       ELSE Return("False")
    /\ UNCHANGED << otherVars, t_fn, t_env, t_cmds, t_files, t_out >>

(* makepkg -si: lines 138-144.                                             *)
AurBuild ==
    /\ t_fn = "install_aur" /\ t_pc = "build"
    /\ \E rc \in ShellCodes :
          /\ t_cmds' = Append(t_cmds, Cmd("makepkg -si", rc))
          /\ Return(IF run_command(rc) THEN "True" ELSE "False")
    /\ UNCHANGED << otherVars, t_fn, t_env, t_files, t_out >>

PacmanCmd(fn) ==
    CASE fn = "install" -> "sudo pacman -S"
      [] fn = "remove" -> "sudo pacman -Rns"
      [] fn = "update" -> "sudo pacman -Syu"

(* if check_root(): return False -- lines 154-156, 171-173, 188-190.       *)
PacmanCheckRoot ==
    /\ t_fn \in {"install", "remove", "update"} /\ t_pc = "check_root"
    /\ IF t_env.root THEN Return("False")
       ELSE t_pc' = "run" /\ UNCHANGED t_ret
    /\ UNCHANGED << otherVars, t_fn, t_env, t_cmds, t_files, t_out >>

(* if run_command("sudo pacman ..."): return True, else False.             *)
PacmanRun ==
    /\ t_fn \in {"install", "remove", "update"} /\ t_pc = "run"
    /\ \E rc \in ShellCodes :
          /\ t_cmds' = Append(t_cmds, Cmd(PacmanCmd(t_fn), rc))
          /\ Return(IF run_command(rc) THEN "True" ELSE "False")
    /\ UNCHANGED << otherVars, t_fn, t_env, t_files, t_out >>

NextArk ==
    \/ AurWhich \/ AurFetch \/ AurPkgbuild \/ AurShow \/ AurConfirm \/ AurBuild
    \/ PacmanCheckRoot \/ PacmanRun

SpecArk == InitArk /\ [][NextArk]_vars

(***************************************************************************)
(* videodestoryer.py: destroy_video_quality(input_file, output_file),      *)
(* called once in a directory that may hold temporary files of an earlier  *)
(* run.                                                                    *)
(***************************************************************************)
temp_file1 == "temp_destroyed_1.mp4"
temp_file2 == "temp_destroyed_2.mp4"
output_file == "DESTROYED_in.mp4"

Passes == << "pass1", "pass2", "pass3" >>

(* The file written by pass k.                                             *)
OutFile(k) == << temp_file1, temp_file2, output_file >>[k]

InitVideo ==
    /\ MainInit
    /\ p_fn = SCRIPT_CPU_TEST
    /\ p_in = <<>>
    /\ p_out = NoParse
    /\ stubs = {}
    /\ listening = FALSE
    /\ connected = "none"
    /\ SockInit("idle", "idle")
    /\ t_fn = "destroy_video_quality"
    /\ t_pc = "start"
    /\ \E input_file \in {"", "in.mp4"}, ffmpeg, decodable \in BOOLEAN :
          t_env = Env(FALSE, FALSE, FALSE, FALSE, "", FALSE, input_file,
                      ffmpeg, decodable)
    /\ t_cmds = <<>>
    /\ t_ret = "none"
    /\ t_files \in SUBSET {temp_file1, temp_file2}
    /\ t_out = <<>>

(* if not input_file: return -- lines 21-23.                               *)
VidStart ==
    /\ t_fn = "destroy_video_quality" /\ t_pc = "start"
    /\ IF t_env.input_file = "" THEN Return("None")
       ELSE t_pc' = "pass1" /\ UNCHANGED t_ret
    /\ UNCHANGED << otherVars, t_fn, t_env, t_cmds, t_files, t_out >>

(* subprocess.run(command_k, check=True, capture_output=True): lines 48,   *)
(* 69, 96.  Without ffmpeg it raises FileNotFoundError, caught at line     *)
(* 116; a pass that exits non-zero raises CalledProcessError and may have  *)
(* written part of its file.                                               *)
VidPass ==
    /\ t_fn = "destroy_video_quality"
    /\ \E k \in 1..3 :
          /\ t_pc = Passes[k]
          /\ IF ~t_env.ffmpeg
             THEN Return("None") /\ UNCHANGED << t_cmds, t_files >>
             ELSE \E rc \in ShellCodes, wrote \in BOOLEAN :
                    /\ t_cmds' = Append(t_cmds, Cmd(Passes[k], rc))
                    /\ t_files' = IF rc = 0 \/ wrote
                                  THEN t_files \cup {OutFile(k)} ELSE t_files
                    /\ t_pc' = IF rc # 0 THEN "except"
                               ELSE IF k < 3 THEN Passes[k + 1] ELSE "cleanup"
                    /\ UNCHANGED t_ret
    /\ UNCHANGED << otherVars, t_fn, t_env, t_out >>

(* except CalledProcessError: print e.stderr.decode() -- lines 114-115.    *)
(* decode raises UnicodeDecodeError on bytes that are not UTF-8; raised    *)
(* inside the handler, it is caught by no other clause.                    *)
VidExcept ==
    /\ t_fn = "destroy_video_quality" /\ t_pc = "except"
    /\ Return(IF t_env.decodable THEN "None" ELSE "raised")
    /\ UNCHANGED << otherVars, t_fn, t_env, t_cmds, t_files, t_out >>

(* for temp_file in [temp_file1, temp_file2]: remove it if it exists --    *)
(* lines 98-100.  os.remove may raise at the first or second file          *)
(* (fail = 1, 2), which line 118 catches.                                  *)
VidCleanup ==
    /\ t_fn = "destroy_video_quality" /\ t_pc = "cleanup"
    /\ \E fail \in 0..2 :
          LET temps == << temp_file1, temp_file2 >>
              gone  == {temps[i] : i \in {j \in 1..2 :
                                            /\ temps[j] \in t_files
                                            /\ (fail = 0 \/ j < fail)}}
          IN  /\ fail # 0 => temps[fail] \in t_files
              /\ t_files' = t_files \ gone
              /\ t_out' = t_out \o
                     SelectSeq(temps, LAMBDA f : f \in gone)
              /\ IF fail = 0 THEN t_pc' = "notify" /\ UNCHANGED t_ret
                 ELSE Return("None")
    /\ UNCHANGED << otherVars, t_fn, t_env, t_cmds >>

(* The success lines and the message box, lines 102-112; Tk() raises       *)
(* without a display, which line 118 catches.                              *)
VidNotify ==
    /\ t_fn = "destroy_video_quality" /\ t_pc = "notify"
    /\ \E shown \in BOOLEAN :
          t_out' = Append(t_out, IF shown THEN "showinfo" ELSE "Unexpected error")
    /\ Return("None")
    /\ UNCHANGED << otherVars, t_fn, t_env, t_cmds, t_files >>

NextVideo == VidStart \/ VidPass \/ VidExcept \/ VidCleanup \/ VidNotify

SpecVideo == InitVideo /\ [][NextVideo]_vars

(***************************************************************************)
(* Properties.                                                             *)
(***************************************************************************)
Range(seq) == {seq[i] : i \in 1..Len(seq)}

IsPrefix(a, b) == Len(a) <= Len(b) /\ SubSeq(b, 1, Len(a)) = a

LeftNetSection == pc \in {"report", "raised", "returned_main", "exited"}

(* C1: once main() has left the try/finally of the network section,        *)
(* normally or by an exception, the background server process is not       *)
(* alive, whatever the client probe did and however the server reacts to   *)
(* the terminate signal.                                                   *)
C1_ServerDeadAfterSection == LeftNetSection => ~ServerAlive

(* C2: when a 5-second wait after terminate has timed out (TimeoutExpired  *)
(* is the exception in flight), the orchestrator has sent the forced kill  *)
(* by the time it ends.                                                    *)
C2_TimeoutEndsWithKill ==
    (pc = "exited" /\ exc = "TimeoutExpired") => "kill" \in Range(signals)

(* C3: the orchestrator process always ends with nothing raised out of     *)
(* main(), the report printed up to its last line, and exit status 0.      *)
C3_AlwaysReportsAndExitsZero ==
    pc = "exited" =>
        /\ exc = "none"
        /\ exit_status = 0
        /\ Len(report) > Len(Header)

(* C4: no failure of the server teardown is raised out of it: the         *)
(* TimeoutExpired of a 5-second wait is never the exception in flight, so  *)
(* main() goes on from the teardown to the report.                         *)
C4_TeardownNeverRaises == exc # "TimeoutExpired"

(* A token that is a number of the given kind.                             *)
IsNumber(tok, kind) ==
    IF kind = "int" THEN tok # <<>> /\ LeadingRun(tok, DigitChars) = tok
    ELSE LeadingRun(tok, NumChars) = tok /\ FloatOk(tok)

(* A line with a metric label of the script whose token is no number.      *)
ParseMissLine(script, line) ==
    \E i \in 1..Len(line), j \in 1..Len(MetricLines(script)) :
        /\ line[i].label = MetricLines(script)[j][1]
        /\ ~IsNumber(line[i].tok, MetricLines(script)[j][2])

(* C5: for the eight line-oriented extractors, a text with lines whose     *)
(* label is known but whose token is no number makes the extractor return  *)
(* normally, with exactly the result of the text without those lines.      *)
C5_ParseMissIsOmitted ==
    (/\ p_out.done
     /\ p_fn # SCRIPT_MC_SEEDGEN
     /\ \E i \in 1..Len(p_in) : ParseMissLine(p_fn, p_in[i]))
    => /\ ~p_out.raised
       /\ p_out.stats =
            Extractor(p_fn, SelectSeq(p_in, LAMBDA l : ~ParseMissLine(p_fn, l))).stats

ReportEnded == pc \in {"raised", "returned_main", "exited"} /\ report # <<>>

(* A row of a printed section whose key is not in the table.               *)
MissingRow(p) ==
    /\ p.key # ""
    /\ p.gate \in DOMAIN all_performance_data
    /\ p.key \notin DOMAIN all_performance_data

(* C6: when the report has been printed, every row of a printed section    *)
(* whose key is missing from the table is in the report with the value     *)
(* 'N/A', and the report ends with the closing separator.                  *)
C6_MissingKeyPrintsNA ==
    ReportEnded =>
        \A i \in 1..Len(ReportPrints) :
            MissingRow(ReportPrints[i]) =>
                /\ Printed(ReportPrints[i].text, NA, ReportPrints[i].spec,
                           ReportPrints[i].tail) \in Range(report)
                /\ report[Len(report)] = Separator

FixedOrder == BlockingProbes \o << SCRIPT_NET_SERVER, SCRIPT_NET_CLIENT >>

(* C7: the scripts are called in the fixed order, the network section is   *)
(* entered with all eight blocking probes called, and the step of main()   *)
(* that handles a failed probe result (not found, spawn error, nonzero     *)
(* exit) raises nothing and moves on to the next call.                     *)
C7_FailureNeverAborts ==
    /\ [](/\ IsPrefix(called, FixedOrder)
          /\ pc = "server" => called = BlockingProbes)
    /\ [][(pc = "returned" /\ pc' # pc /\ ~result.success) =>
             /\ exc' = "none"
             /\ pc' = IF idx < Len(BlockingProbes) THEN "call"
                      ELSE IF idx = Len(BlockingProbes) THEN "server"
                      ELSE "terminate"
             /\ idx' = IF idx < Len(BlockingProbes) THEN idx + 1 ELSE idx]_vars

(* The last of the eight probes failed and main() stands at the network    *)
(* section.                                                                *)
C7_Witness ==
    /\ pc = "server"
    /\ ~result.success
    /\ result.error = "spawn error"
    /\ all_performance_data = EmptyStats

C9_NotFound ==
    /\ [][(pc = "call" /\ pc' = "returned" /\ result'.error = "not found") =>
             /\ alive' = alive
             /\ child' = NoChild
             /\ exc' = "none"
             /\ ~result'.success
             /\ result'.output = <<>>]_vars
    /\ [][(pc = "returned" /\ pc' # pc /\ ~result.success) =>
             /\ all_performance_data' = all_performance_data
             /\ exc' = "none"
             /\ pc' \in {"call", "server", "terminate"}]_vars

(* The CPU script was missing and main() has gone on to the memory probe.  *)
C9_Witness ==
    /\ pc = "call"
    /\ CurrentScript = SCRIPT_MEMORY_TEST
    /\ result.error = "not found"

(* C10: handling a failed result never changes the metrics table.          *)
C10_FailureKeepsTable ==
    [][(pc = "returned" /\ ~result.success) =>
          all_performance_data' = all_performance_data]_vars

(* A failed CPU probe whose stdout held both metric lines has been handled *)
(* and the table has no CPU key.                                           *)
C10_Witness ==
    /\ pc = "call"
    /\ CurrentScript = SCRIPT_MEMORY_TEST
    /\ ~result.success
    /\ result.output = FullOutput(SCRIPT_CPU_TEST)
    /\ "CPU Primes Found" \notin DOMAIN all_performance_data

(* The keys of the table after the probes given.                           *)
HasKeys(keys) == keys \subseteq DOMAIN all_performance_data

(* C11: the metrics table only grows: a step never removes a key nor       *)
(* changes its value, the result about to be merged has no key that is in  *)
(* the table already, and no script is called twice.                       *)
C11_TableOnlyGrows ==
    /\ []((pc = "returned" /\ Extracts(result)) =>
             DOMAIN Extractor(CurrentScript, result.output).stats
                 \cap DOMAIN all_performance_data = {})
    /\ [](\A i, j \in 1..Len(called) : called[i] = called[j] => i = j)
    /\ [][\A key \in DOMAIN all_performance_data :
             /\ key \in DOMAIN all_performance_data'
             /\ all_performance_data'[key] = all_performance_data[key]]_vars

(* The table holds the keys of the CPU probe and of the memory probe.      *)
C11_Witness ==
    /\ pc = "call"
    /\ CurrentScript = SCRIPT_FILE_IO_TEST
    /\ HasKeys({"CPU Primes Found", "CPU Time Taken (s)",
                "Memory Allocation Cycles", "Memory Time Taken (s)"})

(* C12: at most one blocking probe child is alive, a blocking probe is     *)
(* called only when no other blocking probe child is alive, and two        *)
(* children are alive together only as the server and the client.          *)
C12_OneProbeAtATime ==
    /\ Cardinality(alive \ {SCRIPT_NET_SERVER}) <= 1
    /\ pc = "call" => alive \subseteq {SCRIPT_NET_SERVER}
    /\ Cardinality(alive) >= 2 => alive = {SCRIPT_NET_SERVER, SCRIPT_NET_CLIENT}

(* The server and the client are alive together.                           *)
C12_Witness == alive = {SCRIPT_NET_SERVER, SCRIPT_NET_CLIENT}

(* Idle 0, ServerStarting 1, ServerReady 2, ClientRunning 3, Teardown 4,   *)
(* Done 5.                                                                 *)
NetPhase ==
    IF SCRIPT_NET_SERVER \notin Range(called) THEN 0
    ELSE IF pc = "sleep" THEN 1
    ELSE IF pc = "call" THEN 2
    ELSE IF pc \in {"run", "returned"} THEN 3
    ELSE IF pc \in {"terminate", "wait", "poll", "communicate", "finally",
                    "finally_wait", "finally_poll"} THEN 4
    ELSE 5

(* C13: with the server launched, the network sub-test only stays in its   *)
(* state or moves to the next one of Idle, ServerStarting, ServerReady,    *)
(* ClientRunning, Teardown, Done; the client is called only with the       *)
(* server launched, and terminate is sent only after the client has been   *)
(* called and has exited.                                                  *)
C13_NetPhasesInOrder ==
    /\ [][net_server_process' = "Popen" =>
             NetPhase' \in {NetPhase, NetPhase + 1}]_vars
    /\ [](SCRIPT_NET_CLIENT \in Range(called) => net_server_process = "Popen")
    /\ [](signals # <<>> =>
             /\ NetPhase >= 4
             /\ SCRIPT_NET_CLIENT \in Range(called)
             /\ SCRIPT_NET_CLIENT \notin alive)

(* The sub-test is in Teardown after a client that ran and exited.         *)
C13_Witness ==
    /\ pc = "communicate"
    /\ net_server_process = "Popen"
    /\ result.success
    /\ signals = <<"terminate">>

NetKeys == {"Net Send Speed (MB/s)", "Net Receive Speed (MB/s)"}

(* C14: when the server could not be launched, the client is never         *)
(* called, no signal is sent, the table has no Net key, nothing is raised  *)
(* out of the section and main() goes to the report.                       *)
C14_NoServerNoClient ==
    (SCRIPT_NET_SERVER \in Range(called) /\ net_server_process = "None") =>
        /\ SCRIPT_NET_CLIENT \notin Range(called)
        /\ signals = <<>>
        /\ NetKeys \cap DOMAIN all_performance_data = {}
        /\ pc \in {"finally", "report", "raised", "returned_main", "exited"}
        /\ pc \in {"raised", "returned_main", "exited"} =>
               Len(report) >= Len(Header)

(* The server failed to start and main() stands at the report.             *)
C14_Witness ==
    /\ pc = "report"
    /\ SCRIPT_NET_SERVER \in Range(called)
    /\ net_server_process = "None"

(* The titles of the sections in the order 2D, 3D, seed-gen, CPU, Memory,  *)
(* File I/O, Simulated GPU, Real GPU, Network.                             *)
SectionOrder ==
    << "--- 2D Pygame Test (Graphics) ---",
       "--- 3D Ursina Test (Graphics) ---",
       "--- Minecraft Seed Gen Test (Light CPU) ---",
       "--- CPU Performance Test (Heavy CPU) ---",
       "--- Memory Performance Test ---",
       "--- File I/O Performance Test ---",
       "--- Simulated GPU Compute Test (CPU-based) ---",
       "--- Actual GPU Compute Test (OpenCL) ---",
       "--- Network Performance Test (Loopback) ---" >>

SectionRank(text) ==
    CHOOSE k \in 1..Len(SectionOrder) : SectionOrder[k] = text

TitlesPrinted == {t \in Range(SectionOrder) : \E i \in 1..Len(report) : report[i].text = t}

(* C16: of two section titles in the report, the one printed first comes   *)
(* first in the fixed order.                                               *)
C16_SectionsInFixedOrder ==
    \A i, j \in 1..Len(report) :
        (/\ i < j
         /\ report[i].text \in Range(SectionOrder)
         /\ report[j].text \in Range(SectionOrder))
        => SectionRank(report[i].text) < SectionRank(report[j].text)

(* A complete report with the CPU section, the Network section and a       *)
(* third one.                                                              *)
C16_Witness ==
    /\ pc = "returned_main"
    /\ Cardinality(TitlesPrinted) >= 3
    /\ {SectionOrder[4], SectionOrder[9]} \subseteq TitlesPrinted

(* C17: with an empty table the report is the header followed by the       *)
(* no-data line and nothing else, and nothing is raised.                   *)
C17_EmptyTableReport ==
    (ReportEnded /\ DOMAIN all_performance_data = {}) =>
        /\ report = Append(Header, NoDataLine)
        /\ exc = "none"

(* main() has returned from the no-data report.                            *)
C17_Witness ==
    /\ pc = "returned_main"
    /\ DOMAIN all_performance_data = {}
    /\ report # <<>>

(* C20: kill() is never called: at both polls that follow a wait the       *)
(* server has exited, and a wait that timed out leaves by its exception.   *)
C20_KillNeverSent ==
    /\ "kill" \notin Range(signals)
    /\ pc \in {"poll", "finally_poll"} => ~ServerAlive

(* Both waits have timed out and the process has ended.                    *)
C20_Witness ==
    /\ pc = "exited"
    /\ exc = "TimeoutExpired"
    /\ signals = <<"terminate", "terminate">>

(* The line  Total Primes Found: N  with N a decimal integer.              *)
CpuPrimesLine(line) ==
    /\ Len(line) = 1
    /\ line[1].label = "Total Primes Found:"
    /\ IsNumber(line[1].tok, "int")

(* The line  Time Taken: T seconds  with T a decimal number.               *)
CpuTimeLine(line) ==
    /\ Len(line) = 1
    /\ line[1].label = "Time Taken:"
    /\ IsNumber(line[1].tok, "float")
    /\ line[1].unit = " seconds"

(* A line that neither  Total Primes Found: (\d+)  nor                     *)
(* Time Taken: ([\d.]+) seconds  matches.                                  *)
CpuNonMatching(line) ==
    \A i \in 1..Len(line) :
        /\ line[i].label = "Total Primes Found:" =>
               LeadingRun(line[i].tok, DigitChars) = <<>>
        /\ line[i].label = "Time Taken:" =>
               \/ LeadingRun(line[i].tok, NumChars) # line[i].tok
               \/ line[i].tok = <<>>
               \/ line[i].unit # " seconds"

(* A text with one primes line, one time line and otherwise only           *)
(* non-matching lines.                                                     *)
CpuWellFormed(text, i, j) ==
    /\ i # j
    /\ CpuPrimesLine(text[i])
    /\ CpuTimeLine(text[j])
    /\ \A l \in 1..Len(text) \ {i, j} : CpuNonMatching(text[l])

ReportText == [i \in 1..Len(report) |-> Rendered(report[i])]

TextLine(text, value, tail) == [text |-> text, value |-> value, tail |-> tail]

(* The report with the CPU section alone, showing 42 and 1.00.             *)
CpuOnlyReport ==
    << TextLine("==============================", <<>>, ""),
       TextLine("  Comprehensive Performance Overview", <<>>, ""),
       TextLine("==============================", <<>>, ""),
       TextLine("--- CPU Performance Test (Heavy CPU) ---", <<>>, ""),
       TextLine("  Primes Found: ", <<"4", "2">>, ""),
       TextLine("  Time Taken: ", <<"1", ".", "0", "0">>, " seconds"),
       TextLine("==============================", <<>>, "") >>

(* C18: when only the CPU probe exists, exits 0 and prints                 *)
(* Total Primes Found: 42 / Time Taken: 1.00 seconds , nothing is raised   *)
(* and the finished report is the header, the CPU section with 42 and      *)
(* 1.00, and the closing separator: no other section.                      *)
C18_CpuOnlyEndToEnd ==
    stubs = {SCRIPT_CPU_TEST} =>
        /\ exc = "none" /\ pc # "raised"
        /\ pc \in {"returned_main", "exited"} => ReportText = CpuOnlyReport
        /\ pc = "exited" => exit_status = 0
        /\ pc = "report" =>
               /\ FullOutput(SCRIPT_CPU_TEST) =
                     << << Field("Total Primes Found:", <<"4", "2">>, "") >>,
                        << Field("Time Taken:", <<"1", ".", "0", "0">>, " seconds") >> >>
               /\ called = BlockingProbes \o << SCRIPT_NET_SERVER >>

(* The run with the CPU probe alone has ended.                             *)
C18_Witness ==
    /\ stubs = {SCRIPT_CPU_TEST}
    /\ pc = "exited"
    /\ Len(report) = 7

SpeedLine(line) ==
    \E i \in 1..Len(line) : line[i].label \in {"Send Speed:", "Receive Speed:"}

(* C19: after a refused connection the client exits 0 without a speed      *)
(* line, the table gets no Net key, the report has no Network section,     *)
(* and the teardown and the report take place all the same.                *)
C19_RefusedSkipsNetwork ==
    connected = "refused" =>
        /\ child.state = "exited" =>
               /\ child.rc = 0
               /\ \A l \in 1..Len(child.stdout) : ~SpeedLine(child.stdout[l])
        /\ NetKeys \cap DOMAIN all_performance_data = {}
        /\ \A i \in 1..Len(report) : report[i].text # SectionOrder[9]
        /\ pc \in {"raised", "exited"} =>
               /\ "terminate" \in Range(signals)
               /\ report # <<>>

(* C21: when main() stands at the report, or has printed any of it, the    *)
(* server process is not alive.                                            *)
C21_NoReportWhileServerRuns ==
    (pc \in {"report", "returned_main"} \/ report # <<>>) => ~ServerAlive

(* The report is reached after a server was started and torn down.         *)
C21_Witness ==
    /\ pc = "report"
    /\ net_server_process = "Popen"
    /\ "terminate" \in Range(signals)
    /\ SCRIPT_NET_CLIENT \in Range(called)

(* The first (count) key of each section, in the order of SectionOrder.    *)
SectionGate ==
    << "2D Total Sprites", "3D Total Cubes", "MC Seeds Generated",
       "CPU Primes Found", "Memory Allocation Cycles",
       "File I/O Write Speed (MB/s)", "Simulated GPU Matrix Multiplications",
       "Real GPU Matrix Multiplications", "Net Send Speed (MB/s)" >>

(* C22: in the report that has ended, the title of a section is printed    *)
(* exactly when the first key of the section is in the table, and the      *)
(* no-data line is not printed for a table that holds any key.             *)
C22_SectionIffFirstKey ==
    ReportEnded =>
        /\ \A k \in 1..Len(SectionOrder) :
               (SectionOrder[k] \in TitlesPrinted)
                   <=> (SectionGate[k] \in DOMAIN all_performance_data)
        /\ DOMAIN all_performance_data # {} => NoDataLine \notin Range(report)

(* C23: when every child of a blocking call exits at some time, main()     *)
(* ends, by its return or by an exception, whatever the server does.       *)
C23_MainTerminates == <>(pc = "exited")

(* main() has ended after both bounded waits for the server timed out.     *)
C23_Witness ==
    /\ pc = "exited"
    /\ SCRIPT_NET_CLIENT \in Range(called)
    /\ signals = <<"terminate", "terminate">>
    /\ ServerAlive

(* C24: the server accepts at most one connection, ends by itself          *)
(* whatever the client does, and its last line is 'Server shutting down.'  *)
C24_ServerEndsByItself ==
    /\ [](accepted <= 1)
    /\ [](s_pc = "exited" =>
             /\ s_out # <<>>
             /\ s_out[Len(s_out)] = "Server shutting down."
             /\ signals = <<>>)
    /\ <>(s_pc = "exited")

(* The server has ended after an echo, with the client still in its loop.  *)
C24_Witness ==
    /\ s_pc = "exited"
    /\ accepted = 1
    /\ total_bytes_received > 0
    /\ c_pc = "send"

(* C25: the client's total_bytes_received never exceeds its                *)
(* total_bytes_sent, and the server never holds or has sent back more      *)
(* than it received.                                                       *)
C25_ReceivedAtMostSent ==
    /\ total_bytes_received <= total_bytes_sent
    /\ (c_pc \in {"send", "recv"}) =>
           total_bytes_received + s2c + s_data + c2s = total_bytes_sent

(* Two chunks were sent and echoed, the second one received in part.       *)
C25_Witness ==
    /\ total_bytes_sent = 2 * ChunkUnits
    /\ total_bytes_received > ChunkUnits
    /\ total_bytes_received < total_bytes_sent
    /\ c_pc = "exited"

(* The keys of a script's metrics, in the order of its if/elif chain.      *)
ChainKeys(script) ==
    IF script = SCRIPT_CPU_TEST
    THEN << "CPU Primes Found", "CPU Time Taken (s)" >>
    ELSE << "2D Total Sprites", "2D Lowest FPS", "2D Highest FPS",
            "2D Average FPS" >>

(* The pattern of metric j.                                                *)
ChainRegex(script, j) ==
    Regex(MetricLines(script)[j][1],
          IF MetricLines(script)[j][2] = "int" THEN DigitChars ELSE NumChars,
          MetricLines(script)[j][3])

(* The first metric of the chain whose prefix is in the line, 0 if none.   *)
FirstPrefix(script, line) ==
    LET js == {j \in 1..Len(MetricLines(script)) :
                  \E i \in 1..Len(line) : line[i].label = MetricLines(script)[j][1]}
    IN  IF js = {} THEN 0 ELSE CHOOSE j \in js : \A k \in js : j <= k

(* The lines whose first prefix is metric j and which its pattern matches. *)
MatchingLines(script, text, j) ==
    {l \in 1..Len(text) :
        /\ FirstPrefix(script, text[l]) = j
        /\ re_search(ChainRegex(script, j), text[l]) # <<>>}

LastOf(S) == CHOOSE l \in S : \A m \in S : m <= l

ChainValue(script, j, group) ==
    IF MetricLines(script)[j][2] = "int" THEN PyInt(group) ELSE PyFloat(group)

(* Each key holds the value of the last line matched for it, a line being  *)
(* matched against the first pattern of the chain whose prefix it holds.   *)
LastMatchKept ==
    \A j \in 1..Len(MetricLines(p_fn)) :
        LET S == MatchingLines(p_fn, p_in, j)
            key == ChainKeys(p_fn)[j]
        IN  IF S = {} THEN key \notin DOMAIN p_out.stats
            ELSE /\ key \in DOMAIN p_out.stats
                 /\ p_out.stats[key] =
                       ChainValue(p_fn, j,
                           re_search(ChainRegex(p_fn, j), p_in[LastOf(S)]))

(* Some pattern matches several lines, or some line holds two prefixes.    *)
SeveralOrTwoPrefixes ==
    \/ \E j \in 1..Len(MetricLines(p_fn)) :
           Cardinality(MatchingLines(p_fn, p_in, j)) >= 2
    \/ \E l \in 1..Len(p_in) :
           \E i, k \in 1..Len(p_in[l]) : p_in[l][i].label # p_in[l][k].label

(* C26: the extractor returns, for each key, the value of the last line    *)
(* matched for it; a line with two prefixes counts for the first pattern   *)
(* of the chain only.                                                      *)
C26_LastMatchWins ==
    (p_out.done /\ p_fn \in ChainScripts /\ SeveralOrTwoPrefixes) =>
        (~p_out.raised /\ LastMatchKept)

CmdNames == {t_cmds[i].cmd : i \in 1..Len(t_cmds)}

(* The steps before makepkg all succeeded, in their order.                 *)
AurStepsSucceeded ==
    /\ t_env.git
    /\ Len(t_cmds) >= 1
    /\ t_cmds[1].cmd \in {"git pull", "git clone"}
    /\ t_cmds[1].rc = 0
    /\ t_env.pkgbuild
    /\ t_out = <<"PKGBUILD">>
    /\ confirm_action(t_env.answer)

(* C27: makepkg -si is run only after git was found, the clone or pull     *)
(* succeeded, PKGBUILD was found and printed and the user confirmed; in    *)
(* every other case install_aur returns False, and it returns True only    *)
(* when makepkg exited 0.                                                  *)
C27_MakepkgAfterAllSteps ==
    t_fn = "install_aur" =>
        /\ "makepkg -si" \in CmdNames =>
               /\ AurStepsSucceeded
               /\ Len(t_cmds) = 2 /\ t_cmds[2].cmd = "makepkg -si"
        /\ (t_pc = "done" /\ "makepkg -si" \notin CmdNames) => t_ret = "False"
        /\ (t_pc = "done" /\ "makepkg -si" \in CmdNames) =>
               t_ret = (IF t_cmds[2].rc = 0 THEN "True" ELSE "False")

AllPassesSucceeded ==
    Len(t_cmds) = 3 /\ \A i \in 1..3 : t_cmds[i].rc = 0

(* C28: the passes run in order, each only after the one before exited 0;  *)
(* the function never raises; a temporary file is removed only after all   *)
(* three passes succeeded, and a failing pass leaves those of the earlier  *)
(* passes in place.                                                        *)
C28_PassesInOrderNoRaise ==
    t_fn = "destroy_video_quality" =>
        /\ Len(t_cmds) <= 3
        /\ \A i \in 1..Len(t_cmds) :
               /\ t_cmds[i].cmd = Passes[i]
               /\ i < Len(t_cmds) => t_cmds[i].rc = 0
        /\ t_ret # "raised"
        /\ (\E i \in 1..Len(t_out) : t_out[i] \in {temp_file1, temp_file2})
               => AllPassesSucceeded
        /\ ~AllPassesSucceeded =>
               \A i \in 1..(Len(t_cmds) - 1) : OutFile(i) \in t_files

====
